---- MODULE Spec2Model ----
(***************************************************************************)
(* A model of the TextDecoder of xk6-encoding (src/encoding/text_decoder.go)*)
(* together with the golang.org/x/text transformers it drives.             *)
(*                                                                         *)
(* Bytes are naturals 0..255, byte slices and Go strings are sequences of  *)
(* bytes (a Go string is its UTF-8 bytes, well formed or not).  Go slices  *)
(* are 0-based: src[i] in the code is src[i+1] here.                       *)
(*                                                                         *)
(* The destination slices the code allocates always hold 4 bytes for every *)
(* source byte (text_decoder.go:213-217, 262, 348) while no transformer    *)
(* writes more than 3 bytes per source byte, so transform.ErrShortDst is   *)
(* never returned and destinations are modelled as unbounded sequences.    *)
(***************************************************************************)
EXTENDS Integers, Sequences, FiniteSets, TLC

VARIABLES inst, twin, mode, alphabet, used, sin, sout, serr, cutsOK, last, tlast,
          prevMarked, ctor, tenc, reflushed, scan

vars == <<inst, twin, mode, alphabet, used, sin, sout, serr, cutsOK, last, tlast,
          prevMarked, ctor, tenc, reflushed, scan>>

(***************************************************************************)
(* Constants of the source.                                                *)
(***************************************************************************)
UTF8EncodingFormat == "utf-8"
UTF16LEEncodingFormat == "utf-16le"
UTF16BEEncodingFormat == "utf-16be"
RangeError == "RangeError"
TypeError == "TypeError"

\* The string "\uFFFD" as the code copies it into dest: the bytes EF BF BD.
ReplacementChar == <<239, 191, 189>>

\* The rune U+FFFD (utf8.RuneError, '\uFFFD').
RuneError == 65533

Tail0(s, n) == SubSeq(s, n + 1, Len(s))

(***************************************************************************)
(* unicode/utf8 and unicode/utf16 of the Go standard library, as used by   *)
(* the x/text transformers and by the range loop of Decode.                *)
(***************************************************************************)
\* utf8.first / utf8.acceptRanges: size and accepted range of the second
\* byte for a lead byte c; size 1 with lo > hi stands for an invalid lead.
utf8First(c) ==
    IF c < 128 THEN [size |-> 1, lo |-> 0, hi |-> 255, valid |-> TRUE]
    ELSE IF c >= 194 /\ c <= 223 THEN [size |-> 2, lo |-> 128, hi |-> 191, valid |-> TRUE]
    ELSE IF c = 224 THEN [size |-> 3, lo |-> 160, hi |-> 191, valid |-> TRUE]
    ELSE IF c = 237 THEN [size |-> 3, lo |-> 128, hi |-> 159, valid |-> TRUE]
    ELSE IF c >= 225 /\ c <= 239 THEN [size |-> 3, lo |-> 128, hi |-> 191, valid |-> TRUE]
    ELSE IF c = 240 THEN [size |-> 4, lo |-> 144, hi |-> 191, valid |-> TRUE]
    ELSE IF c = 244 THEN [size |-> 4, lo |-> 128, hi |-> 143, valid |-> TRUE]
    ELSE IF c >= 241 /\ c <= 243 THEN [size |-> 4, lo |-> 128, hi |-> 191, valid |-> TRUE]
    ELSE [size |-> 1, lo |-> 1, hi |-> 0, valid |-> FALSE]

isContinuation(b) == b >= 128 /\ b <= 191

\* utf8.EncodeRune for a rune that is a Unicode scalar value.
EncodeRune(r) ==
    IF r < 128 THEN <<r>>
    ELSE IF r < 2048 THEN <<192 + (r \div 64), 128 + (r % 64)>>
    ELSE IF r < 65536 THEN <<224 + (r \div 4096), 128 + ((r \div 64) % 64), 128 + (r % 64)>>
    ELSE <<240 + (r \div 262144), 128 + ((r \div 4096) % 64),
           128 + ((r \div 64) % 64), 128 + (r % 64)>>

\* utf16.IsSurrogate
IsSurrogate(r) == r >= 55296 /\ r < 57344

\* utf8.RuneLen: -1 for a surrogate or a value above U+10FFFF.
RuneLen(r) ==
    IF r < 0 THEN -1
    ELSE IF r < 128 THEN 1
    ELSE IF r < 2048 THEN 2
    ELSE IF IsSurrogate(r) THEN -1
    ELSE IF r < 65536 THEN 3
    ELSE IF r <= 1114111 THEN 4
    ELSE -1

\* utf16.DecodeRune
utf16DecodeRune(r1, r2) ==
    IF r1 >= 55296 /\ r1 < 56320 /\ r2 >= 56320 /\ r2 < 57344
    THEN (r1 - 55296) * 1024 + (r2 - 56320) + 65536
    ELSE RuneError

\* utf8.DecodeRuneInString(s[i:]): the rune and its width, as the
\* "for _, r := range decoded" loop of Decode sees them.
DecodeRuneAt(s, i) ==
    LET n == Len(s) - i
        s0 == s[i + 1]
        x == utf8First(s0)
    IN
    IF s0 < 128 THEN [r |-> s0, size |-> 1]
    ELSE IF ~x.valid THEN [r |-> RuneError, size |-> 1]
    ELSE IF n < x.size THEN [r |-> RuneError, size |-> 1]
    ELSE IF s[i + 2] < x.lo \/ x.hi < s[i + 2] THEN [r |-> RuneError, size |-> 1]
    ELSE IF x.size = 2 THEN [r |-> (s0 % 32) * 64 + (s[i + 2] % 64), size |-> 2]
    ELSE IF ~isContinuation(s[i + 3]) THEN [r |-> RuneError, size |-> 1]
    ELSE IF x.size = 3
         THEN [r |-> (s0 % 16) * 4096 + (s[i + 2] % 64) * 64 + (s[i + 3] % 64), size |-> 3]
    ELSE IF ~isContinuation(s[i + 4]) THEN [r |-> RuneError, size |-> 1]
    ELSE [r |-> (s0 % 8) * 262144 + (s[i + 2] % 64) * 4096
                 + (s[i + 3] % 64) * 64 + (s[i + 4] % 64), size |-> 4]

\* The runes a range loop over the string s yields, in order.
RECURSIVE RunesFrom(_, _)
RunesFrom(s, i) ==
    IF i >= Len(s) THEN <<>>
    ELSE LET d == DecodeRuneAt(s, i)
         IN <<d.r>> \o RunesFrom(s, i + d.size)

Runes(s) == RunesFrom(s, 0)

(***************************************************************************)
(* The transformers of golang.org/x/text that td.transform holds.  Each    *)
(* returns what Transform returns (the bytes written, nSrc, err) and repl, *)
(* the number of U+FFFD it wrote in place of input it rejected.            *)
(***************************************************************************)
ErrNil == "nil"
ErrShortSrc == "transform.ErrShortSrc"

\* unicode.utf8Decoder.Transform: copies well-formed sequences and writes one
\* U+FFFD for every maximal subpart of an ill-formed one.
RECURSIVE utf8Scan(_, _, _, _, _)
utf8Scan(src, atEOF, nSrc, out, repl) ==
    LET n == Len(src)
        c == src[nSrc + 1]
        f == utf8First(c)
        invalid(size) == utf8Scan(src, atEOF, nSrc + size, out \o ReplacementChar, repl + 1)
        valid(size) == utf8Scan(src, atEOF, nSrc + size,
                                out \o SubSeq(src, nSrc + 1, nSrc + size), repl)
    IN
    IF nSrc >= n THEN [out |-> out, nSrc |-> nSrc, err |-> ErrNil, repl |-> repl]
    ELSE IF c < 128 THEN valid(1)
    ELSE IF ~f.valid THEN invalid(1)
    ELSE IF nSrc + f.size > n
         THEN IF ~atEOF
              THEN [out |-> out, nSrc |-> nSrc, err |-> ErrShortSrc, repl |-> repl]
              ELSE IF nSrc + 1 >= n \/ src[nSrc + 2] < f.lo \/ f.hi < src[nSrc + 2]
                   THEN invalid(1)
                   ELSE IF nSrc + 2 >= n \/ ~isContinuation(src[nSrc + 3])
                        THEN invalid(2)
                        ELSE invalid(3)
    ELSE IF src[nSrc + 2] < f.lo \/ f.hi < src[nSrc + 2] THEN invalid(1)
    ELSE IF f.size = 2 THEN valid(2)
    ELSE IF ~isContinuation(src[nSrc + 3]) THEN invalid(2)
    ELSE IF f.size = 3 THEN valid(3)
    ELSE IF ~isContinuation(src[nSrc + 4]) THEN invalid(3)
    ELSE valid(4)

utf8DecoderTransform(src, atEOF) == utf8Scan(src, atEOF, 0, <<>>, 0)

\* The 16-bit code unit at src[i], src[i+1] in the given byte order.
utf16Unit(src, i, endianness) ==
    IF endianness = "LittleEndian"
    THEN src[i + 2] * 256 + src[i + 1]
    ELSE src[i + 1] * 256 + src[i + 2]

\* unicode.isHighSurrogate: despite its name, the range DC00..DFFF.
isHighSurrogate(r) == r >= 56320 /\ r <= 57343

\* The loop of unicode.utf16Decoder.Transform.
RECURSIVE utf16Scan(_, _, _, _, _, _)
utf16Scan(src, atEOF, endianness, nSrc, out, repl) ==
    LET n == Len(src)
        r0 == utf16Unit(src, nSrc, endianness)
        paired == IsSurrogate(r0) /\ nSrc + 3 < n
                  /\ isHighSurrogate(utf16Unit(src, nSrc + 2, endianness))
        r1 == IF paired THEN utf16DecodeRune(r0, utf16Unit(src, nSrc + 2, endianness)) ELSE r0
        sSize == IF paired THEN 4 ELSE 2
        bad == RuneLen(r1) < 0 \/ (paired /\ r1 = RuneError)
        r == IF RuneLen(r1) < 0 THEN RuneError ELSE r1
    IN
    IF nSrc >= n THEN [out |-> out, nSrc |-> nSrc, err |-> ErrNil, repl |-> repl]
    ELSE IF nSrc + 1 < n
         THEN IF IsSurrogate(r0) /\ ~(nSrc + 3 < n) /\ ~atEOF
              THEN [out |-> out, nSrc |-> nSrc, err |-> ErrShortSrc, repl |-> repl]
              ELSE utf16Scan(src, atEOF, endianness, nSrc + sSize, out \o EncodeRune(r),
                             repl + (IF bad THEN 1 ELSE 0))
    ELSE IF atEOF
         THEN utf16Scan(src, atEOF, endianness, nSrc + 1, out \o ReplacementChar, repl + 1)
         ELSE [out |-> out, nSrc |-> nSrc, err |-> ErrShortSrc, repl |-> repl]

\* What a Transform call returns, together with the config the decoder is
\* left with (withConfig) or with the transformer td.transform is left as.
withConfig(res, cfg) ==
    [out |-> res.out, nSrc |-> res.nSrc, err |-> res.err, repl |-> res.repl, cfg |-> cfg]

withTransform(res, t) ==
    [out |-> res.out, nSrc |-> res.nSrc, err |-> res.err, repl |-> res.repl, t |-> t]

\* The transformer keeps the decoder it wraps, in the state the call left it.
keepConfig(res, t) == withTransform(res, [t EXCEPT !.fallback = res.cfg])

\* unicode.utf16Decoder.Transform on a decoder whose current config is cfg
\* (endianness, and acceptBOM of its BOM policy; no policy of the code sets
\* requireBOM).  The result carries the config the call leaves behind.
utf16DecoderTransform(cfg, src, atEOF) ==
    IF Len(src) = 0
    THEN [out |-> <<>>, nSrc |-> 0, err |-> ErrNil, repl |-> 0, cfg |-> cfg]
    ELSE LET look == Len(src) >= 2 /\ cfg.acceptBOM
             isBE == look /\ src[1] = 254 /\ src[2] = 255
             isLE == look /\ src[1] = 255 /\ src[2] = 254
             endianness == IF isBE THEN "BigEndian"
                           ELSE IF isLE THEN "LittleEndian" ELSE cfg.endianness
             start == IF isBE \/ isLE THEN 2 ELSE 0
         IN withConfig(utf16Scan(src, atEOF, endianness, start, <<>>, 0),
                       [cfg EXCEPT !.endianness = endianness,
                                   !.acceptBOM = IF look THEN FALSE ELSE cfg.acceptBOM])

\* transform.Nop.Transform: copies src to dst unchanged.
nopTransform(src) == [out |-> src, nSrc |-> Len(src), err |-> ErrNil, repl |-> 0]

\* Transform of the decoder td.decoder.NewDecoder() returned.
decoderTransform(cfg, src, atEOF) ==
    IF cfg.kind = "utf8"
    THEN withConfig(utf8DecoderTransform(src, atEOF), cfg)
    ELSE utf16DecoderTransform(cfg, src, atEOF)

\* The config of the package-level utf16le and utf16be decoders of
\* unicode.BOMOverride: UTF16(LittleEndian, IgnoreBOM), UTF16(BigEndian, IgnoreBOM).
overrideConfig(current) ==
    [kind |-> "utf16",
     endianness |-> IF current = "utf16le" THEN "LittleEndian" ELSE "BigEndian",
     acceptBOM |-> FALSE]

\* d.current.Transform of a bomOverride whose current is set.
currentTransform(t, current, src, atEOF) ==
    IF current = "fallback"
    THEN keepConfig(decoderTransform(t.fallback, src, atEOF), [t EXCEPT !.current = current])
    ELSE IF current = "nop"
    THEN withTransform(nopTransform(src), [t EXCEPT !.current = current])
    ELSE withTransform(utf16DecoderTransform(overrideConfig(current), src, atEOF),
                       [t EXCEPT !.current = current])

\* The decoder unicode.bomOverride picks from the first bytes of src, and
\* the size of the mark it then skips.
sniffBOM(src) ==
    IF Len(src) >= 2 /\ src[1] = 255 /\ src[2] = 254 THEN "utf16le"
    ELSE IF Len(src) >= 2 /\ src[1] = 254 /\ src[2] = 255 THEN "utf16be"
    ELSE IF Len(src) >= 3 /\ src[1] = 239 /\ src[2] = 187 /\ src[3] = 191 THEN "nop"
    ELSE "fallback"

bomSizeOf(current) == IF current = "fallback" THEN 0 ELSE IF current = "nop" THEN 3 ELSE 2

\* return nDst, nSrc + bomSize, err
skipBOM(res, bomSize) == [res EXCEPT !.nSrc = res.nSrc + bomSize]

\* The first Transform of a bomOverride that has enough input to decide.
overrideFirst(t, current, src, atEOF) ==
    skipBOM(IF bomSizeOf(current) < Len(src)
            THEN currentTransform(t, current, Tail0(src, bomSizeOf(current)), atEOF)
            ELSE [out |-> <<>>, nSrc |-> 0, err |-> ErrNil, repl |-> 0,
                  t |-> [t EXCEPT !.current = current]],
            bomSizeOf(current))

\* unicode.bomOverride.Transform: waits for 3 bytes unless atEOF, then picks
\* the decoder from the first bytes (FF FE, FE FF, EF BB BF) or the fallback.
bomOverrideTransform(t, src, atEOF) ==
    IF t.current # "nil" THEN currentTransform(t, t.current, src, atEOF)
    ELSE IF Len(src) < 3 /\ ~atEOF
    THEN [out |-> <<>>, nSrc |-> 0, err |-> ErrShortSrc, repl |-> 0, t |-> t]
    ELSE overrideFirst(t, sniffBOM(src), src, atEOF)

\* td.transform.Transform(dst, src, atEOF) for the transformer t that Decode
\* installed: the decoder itself, or unicode.BOMOverride around it.
Transform(t, src, atEOF) ==
    IF t.kind = "bomOverride" THEN bomOverrideTransform(t, src, atEOF)
    ELSE keepConfig(decoderTransform(t.fallback, src, atEOF), t)

(***************************************************************************)
(* NewTextDecoder.  A label is a sequence of characters, each a string of  *)
(* one character or the name of a control character ("TAB", "LF", ...).    *)
(***************************************************************************)
\* strings.ToLower on the characters labels are made of.
ToLowerChar(c) ==
    CASE c = "U" -> "u" [] c = "T" -> "t" [] c = "F" -> "f" [] c = "L" -> "l"
      [] c = "E" -> "e" [] c = "B" -> "b" [] c = "N" -> "n" [] c = "I" -> "i"
      [] c = "C" -> "c" [] c = "O" -> "o" [] c = "D" -> "d" [] c = "S" -> "s"
      [] c = "X" -> "x" [] OTHER -> c

ToLower(label) == [i \in 1..Len(label) |-> ToLowerChar(label[i])]

\* The white space strings.TrimSpace removes (unicode.IsSpace): tab, LF, VT,
\* FF, CR, space, U+0085 and U+00A0.
IsSpace(c) == c \in {"TAB", "LF", "VT", "FF", "CR", " ", "NEL", "NBSP"}

RECURSIVE TrimLeft(_)
TrimLeft(label) ==
    IF label # <<>> /\ IsSpace(Head(label)) THEN TrimLeft(Tail(label)) ELSE label

RECURSIVE TrimRight(_)
TrimRight(label) ==
    IF label # <<>> /\ IsSpace(label[Len(label)])
    THEN TrimRight(SubSeq(label, 1, Len(label) - 1))
    ELSE label

TrimSpace(label) == TrimRight(TrimLeft(label))

UTF8Labels ==
    { <<>>,
      <<"u","n","i","c","o","d","e","-","1","-","1","-","u","t","f","-","8">>,
      <<"u","n","i","c","o","d","e","1","1","u","t","f","8">>,
      <<"u","n","i","c","o","d","e","2","0","u","t","f","8">>,
      <<"u","t","f","-","8">>,
      <<"u","t","f","8">>,
      <<"x","-","u","n","i","c","o","d","e","2","0","u","t","f","8">> }

UTF16LELabels ==
    { <<"c","s","u","n","i","c","o","d","e">>,
      <<"i","s","o","-","1","0","6","4","6","-","u","c","s","-","2">>,
      <<"u","c","s","-","2">>,
      <<"u","n","i","c","o","d","e">>,
      <<"u","n","i","c","o","d","e","f","e","f","f">>,
      <<"u","t","f","-","1","6">>,
      <<"u","t","f","-","1","6","l","e">> }

UTF16BELabels ==
    { <<"u","n","i","c","o","d","e","f","f","f","e">>,
      <<"u","t","f","-","1","6","b","e">> }

\* Labels and messages are sequences of characters.  The name of an error
\* as characters, for Error.Error().
NameChars(name) ==
    IF name = RangeError THEN <<"R","a","n","g","e","E","r","r","o","r">>
    ELSE <<"T","y","p","e","E","r","r","o","r">>

\* (*Error).Error(): fmt.Sprintf("%s: %s", e.Name, e.Message).
Error(name, message) == NameChars(name) \o <<":", " ">> \o message

\* fmt.Sprintf("unsupported enc: %s", label)
UnsupportedMessage(label) ==
    <<"u","n","s","u","p","p","o","r","t","e","d"," ","e","n","c",":"," ">> \o label

NilDecoder == [kind |-> "nil", endianness |-> "none", acceptBOM |-> FALSE]

NilTransform == [kind |-> "nil", current |-> "nil", fallback |-> NilDecoder]

\* unicode.UTF8 and unicode.UTF16(endianness, bomPolicy) as Decode uses them.
UnicodeUTF8 == [kind |-> "utf8", endianness |-> "none", acceptBOM |-> FALSE]

UnicodeUTF16(endianness, bomPolicy) ==
    [kind |-> "utf16", endianness |-> endianness, acceptBOM |-> (bomPolicy = "UseBOM")]

\* The zero TextDecoder (&TextDecoder{}).
ZeroTextDecoder ==
    [Encoding |-> "", Fatal |-> FALSE, IgnoreBOM |-> FALSE, errorMode |-> "",
     decoder |-> NilDecoder, transform |-> NilTransform, buffer |-> <<>>]

\* NewTextDecoder with a switch whose default branch falls back to UTF-8.
newTextDecoderDefaulting(label, options) ==
    [td |-> [Encoding |-> IF TrimSpace(ToLower(label)) \in UTF16LELabels
                          THEN UTF16LEEncodingFormat
                          ELSE IF TrimSpace(ToLower(label)) \in UTF16BELabels
                          THEN UTF16BEEncodingFormat
                          ELSE UTF8EncodingFormat,
             Fatal |-> options.Fatal,
             IgnoreBOM |-> options.IgnoreBOM,
             errorMode |-> IF options.Fatal THEN "fatal" ELSE "",
             decoder |-> IF TrimSpace(ToLower(label)) \in UTF16LELabels
                         THEN UnicodeUTF16("LittleEndian",
                                           IF ~options.IgnoreBOM THEN "UseBOM" ELSE "IgnoreBOM")
                         ELSE IF TrimSpace(ToLower(label)) \in UTF16BELabels
                         THEN UnicodeUTF16("BigEndian",
                                           IF ~options.IgnoreBOM THEN "UseBOM" ELSE "IgnoreBOM")
                         ELSE UnicodeUTF8,
             transform |-> NilTransform,
             buffer |-> <<>>],
     ok |-> TRUE, errName |-> "", errMessage |-> <<>>]

NewTextDecoder(label, options) ==
    LET bomPolicy == IF ~options.IgnoreBOM THEN "UseBOM" ELSE "IgnoreBOM"
        norm == TrimSpace(ToLower(label))
        make(enc, decoder) ==
            [td |-> [Encoding |-> enc,
                     Fatal |-> options.Fatal,
                     IgnoreBOM |-> options.IgnoreBOM,
                     errorMode |-> IF options.Fatal THEN "fatal" ELSE "",
                     decoder |-> decoder,
                     transform |-> NilTransform,
                     buffer |-> <<>>],
             ok |-> TRUE, errName |-> "", errMessage |-> <<>>]
    IN
    IF norm \in UTF8Labels THEN make(UTF8EncodingFormat, UnicodeUTF8)
    ELSE IF norm \in UTF16LELabels
         THEN make(UTF16LEEncodingFormat, UnicodeUTF16("LittleEndian", bomPolicy))
    ELSE IF norm \in UTF16BELabels
         THEN make(UTF16BEEncodingFormat, UnicodeUTF16("BigEndian", bomPolicy))
    ELSE [td |-> ZeroTextDecoder, ok |-> FALSE, errName |-> RangeError,
          errMessage |-> UnsupportedMessage(label)]

(***************************************************************************)
(* The UTF-8 helpers of text_decoder.go.                                   *)
(***************************************************************************)
isValidUTF8ContinuationByte(incompleteBuffer, position, b) ==
    IF ~isContinuation(b) THEN FALSE
    ELSE IF Len(incompleteBuffer) = 0 THEN FALSE
    ELSE LET firstByte == incompleteBuffer[1]
         IN IF firstByte = 240 /\ position = 1 THEN b >= 144 /\ b <= 191
            ELSE IF firstByte = 244 /\ position = 1 THEN b >= 128 /\ b <= 143
            ELSE IF firstByte = 224 /\ position = 1 THEN b >= 160 /\ b <= 191
            ELSE IF firstByte = 237 /\ position = 1 THEN b >= 128 /\ b <= 159
            ELSE IF (firstByte = 192 \/ firstByte = 193) /\ position = 1 THEN FALSE
            ELSE TRUE

canCompleteUTF8SequenceImpl(incompleteBuffer, newBytes) ==
    IF Len(incompleteBuffer) = 0 \/ Len(newBytes) = 0 THEN FALSE
    ELSE LET firstByte == incompleteBuffer[1]
             expectedLength == IF firstByte >= 192 /\ firstByte <= 223 THEN 2
                               ELSE IF firstByte >= 224 /\ firstByte <= 239 THEN 3
                               ELSE 4
             totalBytesNeeded == expectedLength - Len(incompleteBuffer)
         IN IF firstByte < 128 THEN FALSE
            ELSE IF ~(firstByte >= 192 /\ firstByte <= 247) THEN FALSE
            ELSE IF Len(newBytes) < totalBytesNeeded
                 THEN \A i \in 0..(Len(newBytes) - 1) :
                          isValidUTF8ContinuationByte(incompleteBuffer,
                              i + Len(incompleteBuffer), newBytes[i + 1])
                 ELSE \A i \in 0..(totalBytesNeeded - 1) :
                          isValidUTF8ContinuationByte(incompleteBuffer,
                              i + Len(incompleteBuffer), newBytes[i + 1])

\* A check that never finds the pending bytes completable.
canCompleteNever(incompleteBuffer, newBytes) == FALSE

canCompleteUTF8Sequence(incompleteBuffer, newBytes) ==
    canCompleteUTF8SequenceImpl(incompleteBuffer, newBytes)

\* The loop of detectInvalidUTF8Sequences from index i on.
RECURSIVE detectFrom(_, _, _, _)
detectFrom(buffer, i, invalidSeqs, validBytes) ==
    LET n == Len(buffer)
        b == buffer[i + 1]
        done(inc) == [invalid |-> invalidSeqs, valid |-> validBytes, incomplete |-> inc]
        inv(k) == detectFrom(buffer, i + k,
                             Append(invalidSeqs, SubSeq(buffer, i + 1, i + k)), validBytes)
        val(k) == detectFrom(buffer, i + k, invalidSeqs,
                             validBytes \o SubSeq(buffer, i + 1, i + k))
        rest == Tail0(buffer, i)
    IN
    IF i >= n THEN done(<<>>)
    ELSE IF b < 128 THEN val(1)
    ELSE IF b >= 192 /\ b <= 223
         THEN IF i + 1 >= n THEN done(rest)
              ELSE IF ~isContinuation(buffer[i + 2]) THEN inv(1)
              ELSE val(2)
    ELSE IF b >= 224 /\ b <= 239
         THEN IF i + 1 >= n THEN done(rest)
              ELSE IF ~isContinuation(buffer[i + 2]) THEN inv(1)
              ELSE IF i + 2 >= n THEN done(rest)
              ELSE IF ~isContinuation(buffer[i + 3]) THEN inv(2)
              ELSE IF (b = 224 /\ buffer[i + 2] < 160) \/ (b = 237 /\ buffer[i + 2] >= 160)
                   THEN inv(3)
              ELSE val(3)
    ELSE IF b >= 240 /\ b <= 247
         THEN IF i + 1 >= n THEN done(rest)
              ELSE IF ~isContinuation(buffer[i + 2]) THEN inv(1)
              ELSE IF i + 2 >= n THEN done(rest)
              ELSE IF ~isContinuation(buffer[i + 3]) THEN inv(2)
              ELSE IF i + 3 >= n THEN done(rest)
              ELSE IF ~isContinuation(buffer[i + 4]) THEN inv(3)
              ELSE IF (b = 240 /\ buffer[i + 2] < 144) \/ (b = 244 /\ buffer[i + 2] >= 144)
                      \/ b >= 245
                   THEN inv(4)
              ELSE val(4)
    ELSE inv(1)

detectInvalidUTF8Sequences(buffer) == detectFrom(buffer, 0, <<>>, <<>>)

(***************************************************************************)
(* TextDecoder.Decode, in the order of its steps.                          *)
(***************************************************************************)
\* n copies of the replacement character
RECURSIVE Replacements(_)
Replacements(n) == IF n <= 0 THEN <<>> ELSE ReplacementChar \o Replacements(n - 1)

\* The transformer Decode creates when td.transform is nil.
newTransformer(td) ==
    [kind |-> IF ~td.IgnoreBOM THEN "bomOverride" ELSE "decoder",
     current |-> "nil",
     fallback |-> td.decoder]

\* A scan that takes a streaming call without new bytes for the end of the
\* input: the pending incomplete sequence is replaced instead of kept.
prescanFlushingPending(td, prevIncompleteBytes, buffer, tdBuffer, doNotFlush) ==
    LET flushed(d) ==
            [replacementCount |-> Len(d.invalid) + (IF d.incomplete = <<>> THEN 0 ELSE 1),
             buffer |-> d.valid,
             incompleteSequences |-> <<>>]
        from(d, extra) ==
            [replacementCount |-> extra + Len(d.invalid),
             buffer |-> d.valid,
             incompleteSequences |-> d.incomplete]
    IN
    IF td.Encoding = UTF8EncodingFormat /\ Len(tdBuffer) > 0 /\ doNotFlush
    THEN IF Len(prevIncompleteBytes) > 0 /\ Len(buffer) > 0
            /\ ~canCompleteUTF8Sequence(prevIncompleteBytes, buffer)
         THEN from(detectInvalidUTF8Sequences(buffer), 1)
         ELSE IF Len(prevIncompleteBytes) > 0 /\ Len(buffer) = 0
         THEN flushed(detectInvalidUTF8Sequences(tdBuffer))
         ELSE from(detectInvalidUTF8Sequences(tdBuffer), 0)
    ELSE [replacementCount |-> 0, buffer |-> tdBuffer, incompleteSequences |-> <<>>]

\* The UTF-8 scan of a streaming call: replacementCount, the bytes left in
\* td.buffer for the transformer, and incompleteSequences.  tdBuffer is
\* td.buffer after the new bytes were appended.
prescanUTF8(td, prevIncompleteBytes, buffer, tdBuffer, doNotFlush) ==
    LET from(d, extra) ==
            [replacementCount |-> extra + Len(d.invalid),
             buffer |-> d.valid,
             incompleteSequences |-> d.incomplete]
    IN
    IF td.Encoding = UTF8EncodingFormat /\ Len(tdBuffer) > 0 /\ doNotFlush
    THEN IF Len(prevIncompleteBytes) > 0 /\ Len(buffer) > 0
            /\ ~canCompleteUTF8Sequence(prevIncompleteBytes, buffer)
         THEN from(detectInvalidUTF8Sequences(buffer), 1)
         ELSE from(detectInvalidUTF8Sequences(tdBuffer), 0)
    ELSE [replacementCount |-> 0, buffer |-> tdBuffer, incompleteSequences |-> <<>>]

\* What stays in td.buffer after the Transform call consumed srcPos bytes.
keepRemaining(td, tdBuffer, srcPos, incompleteSequences, doNotFlush) ==
    IF doNotFlush /\ td.Encoding = UTF8EncodingFormat /\ Len(incompleteSequences) > 0
    THEN Tail0(tdBuffer, srcPos) \o incompleteSequences
    ELSE Tail0(tdBuffer, srcPos)

\* The second Transform of the ErrShortSrc handling, with atEOF = true: its
\* output is used when it reported no error or consumed something.
retryAtEOF(s, tmp) ==
    IF tmp.err = ErrNil \/ tmp.nSrc > 0
    THEN [dest |-> s.dest \o tmp.out,
          buffer |-> Tail0(s.buffer, tmp.nSrc),
          err |-> ErrNil,
          t |-> tmp.t,
          repl |-> s.repl + tmp.repl]
    ELSE [s EXCEPT !.err = ErrNil, !.t = tmp.t]

\* The handling of transform.ErrShortSrc in a streaming call.  s is the state
\* of the call so far: dest, buffer (td.buffer), err, t (td.transform), repl.
handleShortSrc(td, s, incompleteSequences, doNotFlush) ==
    IF s.err = ErrShortSrc /\ doNotFlush
    THEN IF td.Encoding = UTF16LEEncodingFormat \/ td.Encoding = UTF16BEEncodingFormat
         THEN IF Len(s.buffer) > 0 THEN [s EXCEPT !.err = ErrNil] ELSE s
         ELSE IF Len(incompleteSequences) > 0 THEN [s EXCEPT !.err = ErrNil]
         ELSE IF Len(s.buffer) > 0
              THEN retryAtEOF(s, Transform(s.t, s.buffer, TRUE))
              ELSE [s EXCEPT !.err = ErrNil]
    ELSE s

\* flushReplacementCount: one for every byte of td.buffer that is not ASCII.
flushReplacementCount(tdBuffer) ==
    Cardinality({i \in 1..Len(tdBuffer) : tdBuffer[i] >= 128})

\* What the flush of a non-streaming call appends to dest for the bytes left
\* in td.buffer: replacement characters for UTF-8; for UTF-16 the output
\* of tmp, a Transform of those bytes with atEOF = true, and one more
\* replacement character when that failed or wrote nothing.
flushRemaining(td, s, tmp) ==
    IF Len(s.buffer) = 0 THEN [dest |-> s.dest, repl |-> s.repl]
    ELSE IF td.Encoding = UTF8EncodingFormat
    THEN [dest |-> s.dest \o Replacements(flushReplacementCount(s.buffer)),
          repl |-> s.repl + flushReplacementCount(s.buffer)]
    ELSE IF tmp.err # ErrNil \/ Len(tmp.out) = 0
    THEN [dest |-> s.dest \o tmp.out \o ReplacementChar, repl |-> s.repl + tmp.repl + 1]
    ELSE [dest |-> s.dest \o tmp.out, repl |-> s.repl + tmp.repl]

\* td.transform.Reset(); td.transform = nil; td.buffer = nil
resetKeepingDecision(s, flushed) ==
    [dest |-> flushed.dest,
     buffer |-> <<>>,
     err |-> s.err,
     t |-> s.t,
     repl |-> flushed.repl]

resetTransformer(s, flushed) ==
    [dest |-> flushed.dest,
     buffer |-> <<>>,
     err |-> s.err,
     t |-> NilTransform,
     repl |-> flushed.repl]

\* A reset that empties td.buffer but keeps td.transform: the instance would
\* carry its transformer, with the byte-order-mark decision, into the next stream.
flushKeepingTransform(td, s, doNotFlush) ==
    IF doNotFlush THEN s ELSE [s EXCEPT !.buffer = <<>>]

\* The reset of a non-streaming call: what is left in td.buffer becomes
\* replacement characters, then transformer and buffer are dropped.
flushAndReset(td, s, doNotFlush) ==
    IF doNotFlush THEN s
    ELSE resetTransformer(s, flushRemaining(td, s, Transform(s.t, s.buffer, TRUE)))

\* A check that looks at the first character of decoded only.
firstRuneIsReplacement(decoded) ==
    Runes(decoded) # <<>> /\ Runes(decoded)[1] = RuneError

\* The fatal-mode check: a range loop over decoded that looks for U+FFFD.
hasReplacementRune(decoded) ==
    LET runes == Runes(decoded)
    IN \E i \in 1..Len(runes) : runes[i] = RuneError

\* A check that forgets to look at td.Fatal: every decoder would fail on U+FFFD.
fatalCheckUnguarded(td, decoded) == decoded # <<>> /\ hasReplacementRune(decoded)

fatalCheck(td, decoded) == td.Fatal /\ decoded # <<>> /\ hasReplacementRune(decoded)

\* An error return that hands back the text decoded so far with the error.
typeErrorWithText(td, s) ==
    [td |-> [td EXCEPT !.buffer = s.buffer, !.transform = s.t],
     text |-> s.dest, err |-> TypeError, repl |-> s.repl]

\* A failing call that leaves the instance in replacement mode.
typeErrorDroppingFatal(td, s) ==
    [td |-> [td EXCEPT !.buffer = s.buffer, !.transform = s.t,
                       !.Fatal = FALSE, !.errorMode = ""],
     text |-> <<>>, err |-> TypeError, repl |-> s.repl]

\* return "", NewError(TypeError, ...): the instance as the call left it, no text.
typeErrorResult(td, s) ==
    [td |-> [td EXCEPT !.buffer = s.buffer, !.transform = s.t],
     text |-> <<>>, err |-> TypeError, repl |-> s.repl]

\* The call after td.transform.Transform returned tr: dest holds the
\* replacement characters of the pre-scan followed by the transformer's
\* output, and td.buffer the bytes kept for the next call.
afterTransform(td, pre, tr, doNotFlush) ==
    [dest |-> Replacements(pre.replacementCount) \o tr.out,
     buffer |-> keepRemaining(td, pre.buffer, tr.nSrc, pre.incompleteSequences, doNotFlush),
     err |-> tr.err,
     t |-> tr.t,
     repl |-> pre.replacementCount + tr.repl]

\* The returns of Decode: s is the call before the reset of a non-streaming
\* call ("Handle other errors"), flushed the call after it.
returnDecoded(td, s, flushed) ==
    IF s.err # ErrNil /\ s.err # ErrShortSrc /\ td.Fatal
    THEN typeErrorResult(td, s)
    ELSE IF fatalCheck(td, flushed.dest)
    THEN typeErrorResult(td, flushed)
    ELSE [td |-> [td EXCEPT !.buffer = flushed.buffer, !.transform = flushed.t],
          text |-> flushed.dest, err |-> ErrNil, repl |-> flushed.repl]

\* From the handling of ErrShortSrc to the return.
finishDecode(td, s, doNotFlush) == returnDecoded(td, s, flushAndReset(td, s, doNotFlush))

\* Decode from the Transform call on: t is td.transform, pre the result of
\* the UTF-8 pre-scan.
decodeFrom(td, t, pre, doNotFlush) ==
    finishDecode(td,
                 handleShortSrc(td,
                                afterTransform(td, pre,
                                               Transform(t, pre.buffer, ~doNotFlush),
                                               doNotFlush),
                                pre.incompleteSequences, doNotFlush),
                 doNotFlush)

\* Decode with the check of td.decoder made after the new bytes were
\* appended to td.buffer.
decodeCheckingLate(td, buffer, options) ==
    IF td.decoder.kind = "nil"
    THEN [td |-> [td EXCEPT !.buffer = td.buffer \o buffer],
          text |-> <<>>, err |-> "encoding not set", repl |-> 0]
    ELSE decodeFrom(td,
                    IF td.transform.kind = "nil" THEN newTransformer(td) ELSE td.transform,
                    prescanUTF8(td, td.buffer, buffer, td.buffer \o buffer, options.Stream),
                    options.Stream)

\* Decode(buffer, options): the instance after the call, the returned string
\* and error, and repl, the number of replacement characters the call wrote.
Decode(td, buffer, options) ==
    IF td.decoder.kind = "nil"
    THEN [td |-> td, text |-> <<>>, err |-> "encoding not set", repl |-> 0]
    ELSE decodeFrom(td,
                    IF td.transform.kind = "nil" THEN newTransformer(td) ELSE td.transform,
                    prescanUTF8(td, td.buffer, buffer, td.buffer \o buffer, options.Stream),
                    options.Stream)

(***************************************************************************)
(* The TextEncoder of text_encoder.go.  A text is a sequence of Unicode     *)
(* scalar values; the Go string that holds it is its UTF-8 bytes.          *)
(***************************************************************************)
\* The label of charmap.Windows1252 in newTextEncoder.
Windows1252EncodingFormat == "windows-1252"

\* []byte(text): the UTF-8 bytes of a text.
RECURSIVE BytesOf(_)
BytesOf(text) ==
    IF text = <<>> THEN <<>> ELSE EncodeRune(Head(text)) \o BytesOf(Tail(text))

\* The two bytes of a 16-bit code unit in the given byte order.
unitBytes(u, endianness) ==
    IF endianness = "LittleEndian" THEN <<u % 256, u \div 256>>
    ELSE <<u \div 256, u % 256>>

\* The UTF-16 encoder of x/text: every rune of src becomes one code unit,
\* or a surrogate pair (utf16.EncodeRune) from U+10000 on.
RECURSIVE utf16EncodeRunes(_, _)
utf16EncodeRunes(runes, endianness) ==
    IF runes = <<>> THEN <<>>
    ELSE (IF Head(runes) < 65536
          THEN unitBytes(Head(runes), endianness)
          ELSE unitBytes(55296 + ((Head(runes) - 65536) \div 1024), endianness)
                 \o unitBytes(56320 + ((Head(runes) - 65536) % 1024), endianness))
         \o utf16EncodeRunes(Tail(runes), endianness)

\* charmap.Windows1252: ASCII and U+00A0..U+00FF are their own byte; the
\* runes of the texts used here that are outside that range are not in the
\* repertoire.
windows1252Supported(runes) ==
    \A i \in 1..Len(runes) : runes[i] < 128 \/ (runes[i] >= 160 /\ runes[i] <= 255)

\* enc.Bytes(src) for the encoder of the given kind: the bytes and whether
\* the encoder reported an error.
encoderBytes(kind, src) ==
    IF kind = "utf8"
    THEN [bytes |-> utf8DecoderTransform(src, TRUE).out, failed |-> FALSE]
    ELSE IF kind = "utf16le"
    THEN [bytes |-> utf16EncodeRunes(Runes(src), "LittleEndian"), failed |-> FALSE]
    ELSE IF kind = "utf16be"
    THEN [bytes |-> utf16EncodeRunes(Runes(src), "BigEndian"), failed |-> FALSE]
    ELSE IF windows1252Supported(Runes(src))
    THEN [bytes |-> Runes(src), failed |-> FALSE]
    ELSE [bytes |-> <<>>, failed |-> TRUE]

NilTextEncoder == [Encoding |-> "", encoder |-> "nil"]

\* (*TextEncoder).Encode(text)
encodeResult(r) ==
    IF r.failed THEN [bytes |-> <<>>, err |-> TypeError]
    ELSE [bytes |-> r.bytes, err |-> ErrNil]

Encode(te, text) ==
    IF te.encoder = "nil" THEN [bytes |-> <<>>, err |-> "encoding not set"]
    ELSE encodeResult(encoderBytes(te.encoder, BytesOf(text)))

\* newTextEncoder(label)
newTextEncoder(label) ==
    IF label = Windows1252EncodingFormat
    THEN [te |-> [Encoding |-> label, encoder |-> "windows1252"], ok |-> TRUE, errName |-> ""]
    ELSE IF label = UTF8EncodingFormat
    THEN [te |-> [Encoding |-> label, encoder |-> "utf8"], ok |-> TRUE, errName |-> ""]
    ELSE IF label = UTF16LEEncodingFormat
    THEN [te |-> [Encoding |-> label, encoder |-> "utf16le"], ok |-> TRUE, errName |-> ""]
    ELSE IF label = UTF16BEEncodingFormat
    THEN [te |-> [Encoding |-> label, encoder |-> "utf16be"], ok |-> TRUE, errName |-> ""]
    ELSE [te |-> NilTextEncoder, ok |-> FALSE, errName |-> RangeError]

(***************************************************************************)
(* The state machine: one decoder instance inst, built by NewTextDecoder,  *)
(* receives Decode calls; twin is an instance built from the same label    *)
(* and ignoreBOM with the other value of fatal, and in mode "lockstep" it  *)
(* receives the same calls (in mode "single" it is never called).  sin,    *)
(* sout, serr and cutsOK record the current stream (the calls since the    *)
(* last stream=false call): the bytes passed, the concatenated results,    *)
(* whether a call failed, and whether every chunk was non-empty.  last and *)
(* tlast are the latest call on inst and twin; used counts the bytes      *)
(* passed to the instance so far, and MaxLen bounds it.  prevMarked tells  *)
(* whether a stream closed earlier began with the encoding's mark, and     *)
(* reflushed whether the latest call was a stream=false call without bytes *)
(* on an instance whose call before it was a stream=false call too.        *)
(* scan is the run of one byte loop of the UTF-8 helpers, iteration by    *)
(* iteration, and is NoScan in the runs that call the decoder.             *)
(***************************************************************************)
MaxLen == 4

Labels == { <<"u","t","f","-","8">>,
            <<"u","t","f","-","1","6","l","e">>,
            <<"u","t","f","-","1","6","b","e">> }

\* The bytes callers pass: for UTF-8 an ASCII letter and the bytes of the
\* mark EF BB BF and of U+FFFD (EF BF BD), which give well-formed sequences,
\* truncated ones and stray continuation bytes; for UTF-16
\* the byte 00 and the lead bytes of the surrogates and of the marks.
AlphabetFor(enc) ==
    IF enc = UTF8EncodingFormat THEN {65, 239, 187, 191, 189}
    ELSE {0, 216, 220, 254, 255}

SeqsUpTo(S, n) == UNION {[1..k -> S] : k \in 0..n}

NoCall == [called |-> FALSE, buffer |-> <<>>, stream |-> FALSE,
           text |-> <<>>, err |-> ErrNil, repl |-> 0]

\* No loop of the UTF-8 helpers is part of the run.
NoScan ==
    [loop |-> "none", running |-> FALSE, buffer |-> <<>>, i |-> 0,
     invalidSeqs |-> <<>>, validBytes |-> <<>>, incompleteBytes |-> <<>>,
     flushReplacementCount |-> 0,
     asked |-> FALSE, newBytes |-> <<>>, answer |-> FALSE]

\* No encoder is part of the run.
NoEncoder ==
    [label |-> "", te |-> NilTextEncoder, made |-> FALSE, errName |-> "",
     text |-> <<>>, called |-> FALSE, bytes |-> <<>>, err |-> ErrNil]

\* The record of a constructor call: the label and options given, whether
\* the call was made, whether it returned an instance (td # nil), and the
\* text of the error it returned (err.Error(), empty for a nil error).
Constructed(label, options, r) ==
    [label |-> label, options |-> options, called |-> TRUE, instance |-> r.ok,
     errName |-> r.errName,
     error |-> IF r.errName = "" THEN <<>> ELSE Error(r.errName, r.errMessage)]

\* The constructor has not been called.
NotConstructed(label, options) ==
    [label |-> label, options |-> options, called |-> FALSE, instance |-> FALSE,
     errName |-> "", error |-> <<>>]

InitOf(m, label, fatal, ignoreBOM, bytes) ==
    /\ mode = m
    /\ ctor = Constructed(label, [Fatal |-> fatal, IgnoreBOM |-> ignoreBOM],
                          NewTextDecoder(label, [Fatal |-> fatal, IgnoreBOM |-> ignoreBOM]))
    /\ inst = NewTextDecoder(label, [Fatal |-> fatal, IgnoreBOM |-> ignoreBOM]).td
    /\ twin = NewTextDecoder(label, [Fatal |-> ~fatal, IgnoreBOM |-> ignoreBOM]).td
    /\ alphabet = bytes
    /\ used = 0
    /\ sin = <<>>
    /\ sout = <<>>
    /\ serr = FALSE
    /\ cutsOK = TRUE
    /\ last = NoCall
    /\ tlast = NoCall
    /\ prevMarked = FALSE
    /\ reflushed = FALSE
    /\ scan = NoScan

InitMode(m) ==
    \E label \in Labels, fatal \in BOOLEAN, ignoreBOM \in BOOLEAN :
        /\ InitOf(m, label, fatal, ignoreBOM,
                  AlphabetFor(NewTextDecoder(label, [Fatal |-> fatal, IgnoreBOM |-> ignoreBOM]).td.Encoding))
        /\ tenc = NoEncoder

\* A stream is open after a stream=true call and closed after a stream=false one.
Streaming == last.called /\ last.stream

\* The stream is closed: the latest call was made with stream=false.
Closed == last.called /\ ~last.stream

HasPrefix(s, p) == Len(s) >= Len(p) /\ SubSeq(s, 1, Len(p)) = p

\* The byte-order mark of an encoding.
MarkOf(enc) ==
    IF enc = UTF8EncodingFormat THEN <<239, 187, 191>>
    ELSE IF enc = UTF16LEEncodingFormat THEN <<255, 254>>
    ELSE <<254, 255>>

\* The call returned res on inst and tres on twin.
Returned(res, tres, buffer, stream) ==
    /\ used' = used + Len(buffer)
    /\ inst' = res.td
    /\ twin' = tres.td
    /\ sin' = (IF Streaming THEN sin ELSE <<>>) \o buffer
    /\ sout' = (IF Streaming THEN sout ELSE <<>>) \o res.text
    /\ serr' = ((Streaming /\ serr) \/ res.err # ErrNil)
    /\ cutsOK' = ((Streaming => cutsOK) /\ buffer # <<>>)
    /\ last' = [called |-> TRUE, buffer |-> buffer, stream |-> stream,
                text |-> res.text, err |-> res.err, repl |-> res.repl]
    /\ tlast' = IF mode = "lockstep"
                THEN [called |-> TRUE, buffer |-> buffer, stream |-> stream,
                      text |-> tres.text, err |-> tres.err, repl |-> tres.repl]
                ELSE tlast
    /\ prevMarked' = (prevMarked \/ (Closed /\ HasPrefix(sin, MarkOf(inst.Encoding))))
    /\ reflushed' = (Closed /\ ~stream /\ buffer = <<>>)
    /\ UNCHANGED <<mode, alphabet, ctor, tenc, scan>>

Call(buffer, stream) ==
    Returned(Decode(inst, buffer, [Stream |-> stream]),
             IF mode = "lockstep" THEN Decode(twin, buffer, [Stream |-> stream])
             ELSE [td |-> twin, text |-> tlast.text, err |-> tlast.err, repl |-> tlast.repl],
             buffer, stream)

\* decode(bytes, {stream: true})
DecodeStreaming == \E buffer \in SeqsUpTo(alphabet, MaxLen - used) : Call(buffer, TRUE)

\* decode(bytes) and decode(bytes, {stream: false})
DecodeFinal == \E buffer \in SeqsUpTo(alphabet, MaxLen - used) : Call(buffer, FALSE)

Next == DecodeStreaming \/ DecodeFinal

Init == InitMode("single")

Spec == Init /\ [][Next]_vars

\* The same calls on a fatal and a non-fatal instance.
InitLockstep == InitMode("lockstep")

SpecLockstep == InitLockstep /\ [][Next]_vars

\* A UTF-8 decoder fed the bytes of UTF-16 text: the two UTF-16 marks, "A"
\* and 00.
ForeignAlphabet == {0, 65, 254, 255}

InitForeign ==
    \E fatal \in BOOLEAN, ignoreBOM \in BOOLEAN :
        /\ InitOf("single", <<"u","t","f","-","8">>, fatal, ignoreBOM, ForeignAlphabet)
        /\ tenc = NoEncoder

SpecForeign == InitForeign /\ [][Next]_vars

(***************************************************************************)
(* Two instances, calls interleaved: in mode "interleaved" inst and twin   *)
(* are built from any two labels, twin with the opposite options, and      *)
(* every call is made on one of them.                                      *)
(***************************************************************************)
\* Bytes that leave something pending in every encoding: "A" and D8, a
\* UTF-8 lead byte and the high byte of a high surrogate.
TwoAlphabet == {65, 216}

InitTwo ==
    \E label \in Labels, fatal \in BOOLEAN, ignoreBOM \in BOOLEAN, tlabel \in Labels :
        /\ mode = "interleaved"
        /\ ctor = Constructed(label, [Fatal |-> fatal, IgnoreBOM |-> ignoreBOM],
                              NewTextDecoder(label, [Fatal |-> fatal, IgnoreBOM |-> ignoreBOM]))
        /\ inst = NewTextDecoder(label, [Fatal |-> fatal, IgnoreBOM |-> ignoreBOM]).td
        /\ twin = NewTextDecoder(tlabel, [Fatal |-> ~fatal, IgnoreBOM |-> ~ignoreBOM]).td
        /\ alphabet = TwoAlphabet
        /\ used = 0
        /\ sin = <<>>
        /\ sout = <<>>
        /\ serr = FALSE
        /\ cutsOK = TRUE
        /\ last = NoCall
        /\ tlast = NoCall
        /\ prevMarked = FALSE
        /\ reflushed = FALSE
        /\ scan = NoScan
        /\ tenc = NoEncoder

\* A call on twin returned tres, with the pending buffer kept in one place
\* for all instances.
twinReturnedSharing(tres, buffer, stream) ==
    /\ used' = used + Len(buffer)
    /\ twin' = tres.td
    /\ inst' = [inst EXCEPT !.buffer = tres.td.buffer]
    /\ tlast' = [called |-> TRUE, buffer |-> buffer, stream |-> stream,
                 text |-> tres.text, err |-> tres.err, repl |-> tres.repl]
    /\ UNCHANGED <<mode, alphabet, sin, sout, serr, cutsOK, last, prevMarked,
                   ctor, tenc, reflushed, scan>>

\* A call on twin returned tres.
TwinReturned(tres, buffer, stream) ==
    /\ used' = used + Len(buffer)
    /\ twin' = tres.td
    /\ tlast' = [called |-> TRUE, buffer |-> buffer, stream |-> stream,
                 text |-> tres.text, err |-> tres.err, repl |-> tres.repl]
    /\ UNCHANGED <<inst, mode, alphabet, sin, sout, serr, cutsOK, last, prevMarked,
                   ctor, tenc, reflushed, scan>>

TwinCall(buffer, stream) ==
    TwinReturned(Decode(twin, buffer, [Stream |-> stream]), buffer, stream)

\* decode(bytes, {stream: true}) on the other instance
TwinStreaming == \E buffer \in SeqsUpTo(alphabet, MaxLen - used) : TwinCall(buffer, TRUE)

\* decode(bytes) on the other instance
TwinFinal == \E buffer \in SeqsUpTo(alphabet, MaxLen - used) : TwinCall(buffer, FALSE)

NextTwo == DecodeStreaming \/ DecodeFinal \/ TwinStreaming \/ TwinFinal

SpecTwo == InitTwo /\ [][NextTwo]_vars

(***************************************************************************)
(* A TextDecoder whose encoding is not set: the instance is a struct       *)
(* literal with a nil decoder field (module.go:45, and the test            *)
(* TestTextDecoder_Decode_NilDecoder), with any of the other fields set.   *)
(***************************************************************************)
UnsetAlphabet == {65, 239}

UnsetDecoders ==
    { [Encoding |-> enc, Fatal |-> fatal, IgnoreBOM |-> ignoreBOM,
       errorMode |-> IF fatal THEN "fatal" ELSE "",
       decoder |-> NilDecoder, transform |-> t, buffer |-> pending] :
         enc \in {"", UTF8EncodingFormat, UTF16LEEncodingFormat},
         fatal \in BOOLEAN, ignoreBOM \in BOOLEAN,
         t \in {NilTransform, newTransformer([ZeroTextDecoder EXCEPT !.decoder = UnicodeUTF8])},
         pending \in SeqsUpTo(UnsetAlphabet, 1) }

InitUnset ==
    \E td \in UnsetDecoders :
        /\ mode = "single"
        /\ ctor = NotConstructed(<<>>, [Fatal |-> td.Fatal, IgnoreBOM |-> td.IgnoreBOM])
        /\ inst = td
        /\ twin = td
        /\ alphabet = UnsetAlphabet
        /\ used = 0
        /\ sin = <<>>
        /\ sout = <<>>
        /\ serr = FALSE
        /\ cutsOK = TRUE
        /\ last = NoCall
        /\ tlast = NoCall
        /\ prevMarked = FALSE
        /\ reflushed = FALSE
        /\ scan = NoScan
        /\ tenc = NoEncoder

SpecUnset == InitUnset /\ [][Next]_vars

(***************************************************************************)
(* Construction: NewTextDecoder is called once with a label and options.   *)
(* The labels are a core (an alias of the switch as written, an alias in   *)
(* upper or mixed case, or a label of no supported encoding) with at most  *)
(* one white-space character before and after it.                          *)
(***************************************************************************)
PadChars == {" ", "TAB", "LF", "FF", "CR", "VT", "NEL", "NBSP"}

Pads == {<<>>} \cup {<<c>> : c \in PadChars}

MixedCaseCores ==
    { <<"U","T","F","-","8">>,
      <<"U","t","f","8">>,
      <<"U","T","F","-","1","6","L","E">>,
      <<"u","t","f","-","1","6","B","E">>,
      <<"U","n","i","c","o","d","e">>,
      <<"U","C","S","-","2">> }

UnsupportedCores ==
    { <<"i","s","o","-","8","8","5","9","-","1">>,
      <<"w","i","n","d","o","w","s","-","1","2","5","2">>,
      <<"a","s","c","i","i">>,
      <<"l","a","t","i","n","1">>,
      <<"u","n","k","n","o","w","n","-","e","n","c","o","d","i","n","g">>,
      <<"u","t","f"," ","8">>,
      <<"u","t","f","-","3","2">> }

Cores == UTF8Labels \cup UTF16LELabels \cup UTF16BELabels
            \cup MixedCaseCores \cup UnsupportedCores

LabelInputs == {lead \o core \o trail : lead \in Pads, core \in Cores, trail \in Pads}

InitConstruct ==
    \E label \in LabelInputs, fatal \in BOOLEAN, ignoreBOM \in BOOLEAN :
        /\ mode = "construct"
        /\ tenc = NoEncoder
        /\ ctor = NotConstructed(label, [Fatal |-> fatal, IgnoreBOM |-> ignoreBOM])
        /\ inst = ZeroTextDecoder
        /\ twin = ZeroTextDecoder
        /\ alphabet = {}
        /\ used = 0
        /\ sin = <<>>
        /\ sout = <<>>
        /\ serr = FALSE
        /\ cutsOK = TRUE
        /\ last = NoCall
        /\ tlast = NoCall
        /\ prevMarked = FALSE
        /\ reflushed = FALSE
        /\ scan = NoScan

\* new TextDecoder(label, options)
Construct ==
    /\ ~ctor.called
    /\ ctor' = Constructed(ctor.label, ctor.options,
                           NewTextDecoder(ctor.label, ctor.options))
    /\ inst' = NewTextDecoder(ctor.label, ctor.options).td
    /\ UNCHANGED <<twin, mode, alphabet, used, sin, sout, serr, cutsOK, last,
                   tlast, prevMarked, tenc, reflushed, scan>>

NextConstruct == Construct

SpecConstruct == InitConstruct /\ [][NextConstruct]_vars

(***************************************************************************)
(* Encoding and the round trip: an encoder built by newTextEncoder encodes *)
(* a text once, and a UTF-8 decoder decodes the bytes in one non-streaming *)
(* call.  tenc holds the label given, the encoder (made tells whether one  *)
(* was returned), the text, and the result of Encode once it was called.   *)
(***************************************************************************)
MaxRunes == 3

\* "A", e acute, the mark U+FEFF, U+FFFD and a character outside the BMP.
TextRunes == {65, 233, 65279, 65533, 127757}

Texts == SeqsUpTo(TextRunes, MaxRunes)

EncoderLabels == {UTF8EncodingFormat, UTF16LEEncodingFormat, UTF16BEEncodingFormat,
                  Windows1252EncodingFormat, "latin1"}

NewEncoder(label, text, r) ==
    [label |-> label, te |-> r.te, made |-> r.ok, errName |-> r.errName,
     text |-> text, called |-> FALSE, bytes |-> <<>>, err |-> ErrNil]

InitEncoder ==
    \E label \in EncoderLabels, text \in Texts, fatal \in BOOLEAN, ignoreBOM \in BOOLEAN :
        /\ InitOf("roundtrip", <<"u","t","f","-","8">>, fatal, ignoreBOM, {})
        /\ tenc = NewEncoder(label, text, newTextEncoder(label))

Encoded(r) == [tenc EXCEPT !.called = TRUE, !.bytes = r.bytes, !.err = r.err]

\* encoder.encode(text)
EncodeText ==
    /\ tenc.made /\ ~tenc.called
    /\ tenc' = Encoded(Encode(tenc.te, tenc.text))
    /\ UNCHANGED <<inst, twin, mode, alphabet, used, sin, sout, serr, cutsOK, last,
                   tlast, prevMarked, ctor, reflushed, scan>>

\* decoder.decode(bytes) on the bytes the encoder returned
DecodeEncoded ==
    /\ tenc.called /\ tenc.err = ErrNil /\ ~last.called
    /\ Call(tenc.bytes, FALSE)

NextEncoder == EncodeText \/ DecodeEncoded

SpecEncoder == InitEncoder /\ [][NextEncoder]_vars

(***************************************************************************)
(* Vocabulary of the properties.                                           *)
(***************************************************************************)
LabelOf(enc) ==
    IF enc = UTF8EncodingFormat THEN <<"u","t","f","-","8">>
    ELSE IF enc = UTF16LEEncodingFormat THEN <<"u","t","f","-","1","6","l","e">>
    ELSE <<"u","t","f","-","1","6","b","e">>

\* A freshly constructed decoder with the label and options of d.
Fresh(d) == NewTextDecoder(LabelOf(d.Encoding),
                           [Fatal |-> d.Fatal, IgnoreBOM |-> d.IgnoreBOM]).td

\* One Decode of the whole sequence with stream=false on a fresh decoder.
OneShot(d, bytes) == Decode(Fresh(d), bytes, [Stream |-> FALSE])

\* Well-formed UTF-8 (Unicode, table 3-7), from byte i+1 on.
RECURSIVE WellFormedUTF8From(_, _)
WellFormedUTF8From(s, i) ==
    LET n == Len(s) - i
        b == s[i + 1]
        cont(k) == s[i + k] >= 128 /\ s[i + k] <= 191
        in(k, lo, hi) == s[i + k] >= lo /\ s[i + k] <= hi
    IN
    IF n <= 0 THEN TRUE
    ELSE IF b <= 127 THEN WellFormedUTF8From(s, i + 1)
    ELSE IF b >= 194 /\ b <= 223 THEN n >= 2 /\ cont(2) /\ WellFormedUTF8From(s, i + 2)
    ELSE IF b >= 224 /\ b <= 239
         THEN /\ n >= 3
              /\ IF b = 224 THEN in(2, 160, 191)
                 ELSE IF b = 237 THEN in(2, 128, 159) ELSE cont(2)
              /\ cont(3)
              /\ WellFormedUTF8From(s, i + 3)
    ELSE IF b >= 240 /\ b <= 244
         THEN /\ n >= 4
              /\ IF b = 240 THEN in(2, 144, 191)
                 ELSE IF b = 244 THEN in(2, 128, 143) ELSE cont(2)
              /\ cont(3)
              /\ cont(4)
              /\ WellFormedUTF8From(s, i + 4)
    ELSE FALSE

\* Well-formed UTF-16 in the given byte order, from byte i+1 on: whole code
\* units, every high surrogate followed by a low one, no other surrogate.
RECURSIVE WellFormedUTF16From(_, _, _)
WellFormedUTF16From(s, i, endianness) ==
    LET n == Len(s) - i
        u == utf16Unit(s, i, endianness)
        v == utf16Unit(s, i + 2, endianness)
    IN
    IF n <= 0 THEN TRUE
    ELSE IF n < 2 THEN FALSE
    ELSE IF u >= 55296 /\ u <= 56319
         THEN n >= 4 /\ v >= 56320 /\ v <= 57343 /\ WellFormedUTF16From(s, i + 4, endianness)
    ELSE IF u >= 56320 /\ u <= 57343 THEN FALSE
    ELSE WellFormedUTF16From(s, i + 2, endianness)

WellFormed(enc, s) ==
    IF enc = UTF8EncodingFormat THEN WellFormedUTF8From(s, 0)
    ELSE IF enc = UTF16LEEncodingFormat THEN WellFormedUTF16From(s, 0, "LittleEndian")
    ELSE WellFormedUTF16From(s, 0, "BigEndian")

\* The decoder of d's encoding that treats a byte-order mark as ordinary
\* input and replaces instead of failing; one stream=false Decode on it is
\* a single Transform of the encoding's decoder with atEOF = true.
Plain(d) == NewTextDecoder(LabelOf(d.Encoding), [Fatal |-> FALSE, IgnoreBOM |-> TRUE]).td

PlainText(d, bytes) == Decode(Plain(d), bytes, [Stream |-> FALSE]).text

\* The bytes of s after the leading byte-order mark of d's encoding.
AfterMark(d, s) == Tail0(s, Len(MarkOf(d.Encoding)))

\* What the stream's bytes are after the handling of a leading mark.
Payload(d, s) ==
    IF ~d.IgnoreBOM /\ HasPrefix(s, MarkOf(d.Encoding)) THEN AfterMark(d, s) ELSE s

\* The UTF-8 classification rules.  ContRun: how many of the bytes after the
\* lead byte s[i+1] continue its sequence (the first one within the range
\* the lead byte allows, the later ones in 80..BF), at most size - 1.
RECURSIVE ContRun(_, _, _, _)
ContRun(s, i, k, size) ==
    LET f == utf8First(s[i + 1])
        ok == IF k = 1 THEN s[i + 2] >= f.lo /\ s[i + 2] <= f.hi
              ELSE s[i + k + 1] >= 128 /\ s[i + k + 1] <= 191
    IN IF k >= size \/ i + k >= Len(s) THEN k - 1
       ELSE IF ok THEN ContRun(s, i, k + 1, size) ELSE k - 1

\* One mark per span of s from byte i+1 on: "char" for a well-formed
\* sequence, "U+FFFD" for an invalid span (a stray continuation byte, a
\* never-valid lead byte, a malformed or truncated maximal subpart) and for
\* a well-formed EF BF BD.
RECURSIVE Classify(_, _)
Classify(s, i) ==
    LET b == s[i + 1]
        f == utf8First(b)
        run == ContRun(s, i, 1, f.size)
    IN IF i >= Len(s) THEN <<>>
       ELSE IF b < 128 THEN <<"char">> \o Classify(s, i + 1)
       ELSE IF ~f.valid THEN <<"U+FFFD">> \o Classify(s, i + 1)
       ELSE IF run + 1 = f.size
            THEN <<IF SubSeq(s, i + 1, i + 3) = ReplacementChar THEN "U+FFFD" ELSE "char">>
                 \o Classify(s, i + f.size)
       ELSE <<"U+FFFD">> \o Classify(s, i + run + 1)

\* The same marks read off a decoded text.
MarksOf(text) ==
    LET r == Runes(text)
    IN [i \in 1..Len(r) |-> IF r[i] = RuneError THEN "U+FFFD" ELSE "char"]

\* The positions of U+FFFD in a sequence of marks.
ReplacementPositions(marks) == {i \in 1..Len(marks) : marks[i] = "U+FFFD"}

(***************************************************************************)
(* Properties.                                                             *)
(***************************************************************************)

\* C1: chunk-invariance.  When a stream of non-empty chunks is closed by a
\* stream=false call and its bytes are a well-formed sequence of the
\* encoding, the stream fails exactly when one stream=false Decode of the
\* whole sequence on a fresh decoder with the same options fails, and
\* otherwise the concatenated results equal the text of that Decode.
ChunkInvariance ==
    (Closed /\ cutsOK /\ WellFormed(inst.Encoding, sin))
        => /\ serr <=> (OneShot(inst, sin).err # ErrNil)
           /\ ~serr => sout = OneShot(inst, sin).text

\* C2: on a non-fatal UTF-8 decoder the U+FFFD characters of a closed
\* stream's output are as many, and at the same character positions, as the
\* invalid spans the classification rules find in the stream's bytes,
\* whether the bytes came in stream=true or stream=false calls.
ReplacementPerInvalidSpan ==
    (Closed /\ inst.Encoding = UTF8EncodingFormat /\ ~inst.Fatal)
        => ReplacementPositions(MarksOf(sout))
               = ReplacementPositions(Classify(Payload(inst, sin), 0))

\* C3: a call fails with TypeError only on a decoder built with fatal=true,
\* and a closed stream whose bytes are well-formed in the decoder's encoding
\* had no failing call, whatever code points the bytes encode.
TypeErrorOnlyOnInvalid ==
    /\ last.err = TypeError => inst.Fatal
    /\ (Closed /\ WellFormed(inst.Encoding, sin)) => ~serr

\* C4: fatal and non-fatal detection agree.  With the same calls made on a
\* fatal and on a non-fatal decoder, the latest call failed with TypeError
\* on the fatal one exactly when the non-fatal one wrote at least one
\* replacement character in that call.
FatalAgreesWithNonFatal ==
    (last.called /\ inst.Fatal) => ((last.err = TypeError) <=> (tlast.repl >= 1))

\* C5: a decoder built with fatal=false never returns an error from Decode,
\* whatever the bytes, the stream flag and the earlier calls.
NonFatalNeverFails == (last.called /\ ~inst.Fatal) => last.err = ErrNil

\* A non-fatal decoder has just replaced an invalid span in a streaming
\* call that followed earlier calls.
NonFatalReplaced ==
    /\ last.called /\ ~inst.Fatal /\ last.stream
    /\ last.repl >= 1
    /\ used > Len(last.buffer)

\* C6: a call that fails with TypeError returns the empty string as its
\* text, also when characters were decoded before the invalid span.
TypeErrorCarriesNoText == last.err = TypeError => last.text = <<>>

\* A call on a fatal decoder failed on bytes that begin with the letter A
\* followed by an invalid span; the non-fatal decoding of the same bytes
\* is not empty.
FailedAfterValidPrefix ==
    /\ last.err = TypeError
    /\ used = Len(last.buffer)
    /\ Len(last.buffer) >= 2 /\ last.buffer[1] = 65
    /\ HasPrefix(PlainText(inst, last.buffer), <<65>>)

\* C7: after every stream=false call, whether it returned text or failed,
\* the pending buffer is empty and the transformer is discarded: the
\* instance equals a freshly constructed decoder with the same label and
\* options, so the next call behaves like a first call.
ResetAfterFinalCall ==
    Closed => /\ inst.buffer = <<>>
              /\ inst.transform = NilTransform
              /\ inst = Fresh(inst)

\* A stream=false call has closed a stream that had earlier streaming
\* chunks, and it failed with TypeError.
FinalCallFailedAfterChunks ==
    /\ Closed /\ last.err = TypeError
    /\ Len(sin) > Len(last.buffer)
    /\ inst.Fatal

\* C8: after every call the pending buffer holds at most 3 bytes.
PendingAtMostThree == Len(inst.buffer) <= 3

\* C9: with ignoreBOM=false, when a closed stream without failure began
\* with the byte-order mark of the decoder's encoding, its output is the
\* decoding of the bytes after the mark: nothing is emitted for the mark
\* and the rest decodes as if the mark had not been there.
LeadingMarkConsumed ==
    (Closed /\ ~inst.IgnoreBOM /\ ~serr /\ HasPrefix(sin, MarkOf(inst.Encoding)))
        => sout = PlainText(inst, AfterMark(inst, sin))

\* C10: with ignoreBOM=true, once the bytes passed in a stream without
\* failure begin with the byte-order mark of the decoder's encoding, the
\* stream's output begins with U+FEFF, in streaming and non-streaming calls.
MarkKeptAsCharacter ==
    (last.called /\ inst.IgnoreBOM /\ ~serr /\ HasPrefix(sin, MarkOf(inst.Encoding)))
        => HasPrefix(sout, EncodeRune(65279))

\* The byte offsets greater than 0 at which the mark of the encoding starts
\* in s (for UTF-16, on a code-unit boundary).
MarkOffsets(enc, s) ==
    {k \in 1..(Len(s) - Len(MarkOf(enc))) :
        /\ SubSeq(s, k + 1, k + Len(MarkOf(enc))) = MarkOf(enc)
        /\ (enc = UTF8EncodingFormat \/ k % 2 = 0)}

\* How many U+FEFF characters a text holds.
CountFEFF(text) ==
    LET r == Runes(text)
    IN Cardinality({i \in 1..Len(r) : r[i] = 65279})

\* C11: mark removal applies only to the first bytes of a stream.  In a
\* closed stream without failure every mark pattern that starts at an
\* offset greater than 0 was decoded as U+FEFF, none was removed: the output
\* holds at least as many U+FEFF as there are such patterns.
MarkAfterStartKept ==
    (Closed /\ ~serr) => CountFEFF(sout) >= Cardinality(MarkOffsets(inst.Encoding, sin))

\* s is a non-empty proper prefix of p.
ProperPrefix(s, p) == Len(s) >= 1 /\ Len(s) < Len(p) /\ SubSeq(p, 1, Len(s)) = s

\* One Decode of the bytes, with the given stream flag, on a fresh decoder.
InOneChunk(d, bytes, stream) == Decode(Fresh(d), bytes, [Stream |-> stream])

\* A call on a decoder with ignoreBOM=false whose open stream has so far
\* delivered only a proper prefix of the mark, and after which the stream's
\* bytes are still a prefix of the mark or begin with it.
SplitMarkStep ==
    /\ Streaming /\ ~inst.IgnoreBOM
    /\ ProperPrefix(sin, MarkOf(inst.Encoding))
    /\ \/ HasPrefix(sin', MarkOf(inst.Encoding))
       \/ ProperPrefix(sin', MarkOf(inst.Encoding))

\* C12: a mark split over calls is removed as if it had arrived in one chunk.
\* While only a proper prefix of the mark has arrived the calls returned ""
\* and the bytes are pending; the call that brings the next bytes returns
\* what one call with all the bytes of the stream returns on a fresh
\* decoder and leaves the instance in the same state, and the stream's output
\* has no U+FEFF for the leading mark.
SplitMarkAsOneChunk ==
    [][SplitMarkStep =>
        /\ sout = <<>> /\ ~serr /\ inst.buffer = sin
        /\ last'.text = InOneChunk(inst, sin', last'.stream).text
        /\ last'.err = InOneChunk(inst, sin', last'.stream).err
        /\ inst' = InOneChunk(inst, sin', last'.stream).td
        /\ CountFEFF(sout') <= Cardinality(MarkOffsets(inst.Encoding, sin'))]_vars

\* The mark arrived split (the calls before the latest one delivered a proper
\* prefix of it), it was removed, and the bytes after it were decoded.
SplitMarkRemoved ==
    /\ ~inst.IgnoreBOM /\ last.called /\ last.stream /\ ~serr
    /\ HasPrefix(sin, MarkOf(inst.Encoding))
    /\ Len(sin) - Len(last.buffer) >= 1
    /\ Len(sin) - Len(last.buffer) < Len(MarkOf(inst.Encoding))
    /\ sout # <<>>
    /\ sout = PlainText(inst, AfterMark(inst, sin))

\* C13: a non-streaming call re-arms the handling of the byte order mark.
\* With ignoreBOM = FALSE, the mark at the start of every stream is removed,
\* whatever the streams closed before it began with: the text of a stream
\* that begins with the mark holds no more U+FEFF than there are marks after
\* its start. And the first call of a stream returns what a new decoder
\* returns for the same bytes, so nothing of an earlier stream is left.
MarkRemovedInEveryStream ==
    /\ (last.called /\ ~inst.IgnoreBOM /\ ~serr /\ HasPrefix(sin, MarkOf(inst.Encoding)))
          => CountFEFF(sout) <= Cardinality(MarkOffsets(inst.Encoding, sin))
    /\ (last.called /\ sin = last.buffer)
          => /\ last.text = InOneChunk(inst, last.buffer, last.stream).text
             /\ last.err = InOneChunk(inst, last.buffer, last.stream).err

\* A stream closed earlier began with the mark, and the closed stream at hand
\* begins with it too: the mark is consumed again and nothing is emitted.
MarkRemovedAgain ==
    /\ prevMarked /\ Closed /\ last.called
    /\ ~inst.IgnoreBOM /\ ~serr
    /\ HasPrefix(sin, MarkOf(inst.Encoding))
    /\ CountFEFF(sout) = 0

IsUTF16(enc) == enc \in {UTF16LEEncodingFormat, UTF16BEEncodingFormat}

\* The stream begins with one of the two UTF-16 marks.
AnyMark16(s) == HasPrefix(s, <<255, 254>>) \/ HasPrefix(s, <<254, 255>>)

\* C14: a UTF-16 decoder with ignoreBOM = FALSE consumes a leading FF FE or
\* FE FF and decodes the rest in the byte order of its label: the text of a
\* closed stream is what the label's decoder without mark handling returns
\* for the bytes after the first two.
MarkNeverChangesByteOrder ==
    (/\ Closed /\ ~serr
     /\ IsUTF16(inst.Encoding) /\ ~inst.IgnoreBOM
     /\ AnyMark16(sin))
        => sout = PlainText(inst, Tail0(sin, 2))

\* C15: the only mark of a UTF-8 decoder is EF BB BF.  A stream that begins
\* with FF FE or FE FF is decoded as UTF-8, whether it came in streaming or
\* non-streaming calls: its text is what the UTF-8 decoder without mark
\* handling returns for all its bytes, the two bytes of the UTF-16 mark
\* being invalid UTF-8.
ForeignMarkDecodedAsUTF8 ==
    (/\ Closed /\ ~inst.Fatal
     /\ inst.Encoding = UTF8EncodingFormat
     /\ AnyMark16(sin))
        => /\ ~serr
           /\ sout = PlainText(inst, sin)

\* Trimming of leading and trailing ASCII white space: space, tab, LF, FF, CR.
IsASCIISpace(c) == c \in {" ", "TAB", "LF", "FF", "CR"}

RECURSIVE TrimASCIILeft(_)
TrimASCIILeft(label) ==
    IF label # <<>> /\ IsASCIISpace(Head(label)) THEN TrimASCIILeft(Tail(label)) ELSE label

RECURSIVE TrimASCIIRight(_)
TrimASCIIRight(label) ==
    IF label # <<>> /\ IsASCIISpace(label[Len(label)])
    THEN TrimASCIIRight(SubSeq(label, 1, Len(label) - 1))
    ELSE label

\* The label as the alias table is asked: trimmed and in lower case.
Normalized(label) == ToLower(TrimASCIIRight(TrimASCIILeft(label)))

\* The canonical name of the alias group of a normalized label, "" for none.
CanonicalName(norm) ==
    IF norm \in UTF8Labels THEN UTF8EncodingFormat
    ELSE IF norm \in UTF16LELabels THEN UTF16LEEncodingFormat
    ELSE IF norm \in UTF16BELabels THEN UTF16BEEncodingFormat
    ELSE ""

\* C16: NewTextDecoder accepts a label exactly when the label, with its
\* leading and trailing ASCII white space trimmed and in lower case, is in
\* the alias table; the instance then has the canonical name of the alias
\* group as Encoding and Fatal and IgnoreBOM as the options give them.
LabelAcceptedIffAlias ==
    ctor.called =>
        /\ ctor.instance <=> CanonicalName(Normalized(ctor.label)) # ""
        /\ ctor.instance =>
              /\ inst.Encoding = CanonicalName(Normalized(ctor.label))
              /\ inst.Fatal = ctor.options.Fatal
              /\ inst.IgnoreBOM = ctor.options.IgnoreBOM

\* s ends with the characters of p.
HasSuffix(s, p) == Len(s) >= Len(p) /\ Tail0(s, Len(s) - Len(p)) = p

UnsupportedEncodingText ==
    (ctor.called /\ ~ctor.instance)
        => ctor.error = <<"R","a","n","g","e","E","r","r","o","r",":"," ",
                          "u","n","s","u","p","p","o","r","t","e","d"," ",
                          "e","n","c","o","d","i","n","g",":"," ">> \o ctor.label

\* C19: the encoder always produces UTF-8: whatever label it was constructed
\* with, its encoding property is "utf-8" and Encode(text) returns the UTF-8
\* bytes of text.
EncoderAlwaysUTF8 ==
    /\ tenc.made => tenc.te.Encoding = UTF8EncodingFormat
    /\ tenc.called => (tenc.err = ErrNil /\ tenc.bytes = BytesOf(tenc.text))

\* C20: round trip.  A UTF-8 decoder, whatever its fatal and ignoreBOM
\* options, returns s for the bytes the UTF-8 encoder made of s when it is
\* called once with stream = FALSE.
RoundTrip ==
    (/\ tenc.called /\ tenc.te.Encoding = UTF8EncodingFormat
     /\ last.called /\ ~last.stream /\ last.buffer = tenc.bytes
     /\ inst.Encoding = UTF8EncodingFormat)
        => /\ last.err = ErrNil
           /\ Runes(last.text) = tenc.text

\* The code points of well-formed UTF-16 from byte i+1 on: one per code unit
\* read in the given byte order, one per high+low surrogate pair.
RECURSIVE CodePoints16(_, _, _)
CodePoints16(s, i, endianness) ==
    IF i + 2 > Len(s) THEN <<>>
    ELSE IF utf16Unit(s, i, endianness) >= 55296 /\ utf16Unit(s, i, endianness) <= 56319
    THEN <<65536 + (utf16Unit(s, i, endianness) - 55296) * 1024
                 + (utf16Unit(s, i + 2, endianness) - 56320)>>
         \o CodePoints16(s, i + 4, endianness)
    ELSE <<utf16Unit(s, i, endianness)>> \o CodePoints16(s, i + 2, endianness)

\* The string a well-formed input of the encoding stands for.
EncodedText(enc, s) ==
    IF enc = UTF8EncodingFormat THEN s
    ELSE IF enc = UTF16LEEncodingFormat THEN BytesOf(CodePoints16(s, 0, "LittleEndian"))
    ELSE BytesOf(CodePoints16(s, 0, "BigEndian"))

\* The input begins with a byte-order mark.
LeadingMark(s) == HasPrefix(s, <<239, 187, 191>>) \/ AnyMark16(s)

\* C21: one stream=false call on well-formed input that does not begin with
\* a byte-order mark returns, without error, exactly the encoded code
\* points: the input itself for utf-8, the code units read low byte first
\* for utf-16le and high byte first for utf-16be, a surrogate pair giving
\* one supplementary code point.
WellFormedDecodesExactly ==
    (/\ Closed /\ sin = last.buffer
     /\ WellFormed(inst.Encoding, sin) /\ ~LeadingMark(sin))
        => /\ last.err = ErrNil
           /\ last.text = EncodedText(inst.Encoding, sin)

\* C22: idempotent flush.  A Decode call with no bytes and stream = FALSE on
\* an instance whose latest call was a stream = FALSE call returns "" with
\* no error and leaves the instance as it was, in the reset state (nothing
\* pending, no transformer), however many such calls follow one another.
IdempotentFlush ==
    [][(Closed /\ reflushed')
         => /\ last'.text = <<>>
            /\ last'.err = ErrNil
            /\ inst' = inst
            /\ inst'.buffer = <<>>
            /\ inst'.transform = NilTransform]_vars

\* An empty stream = FALSE call followed a stream = FALSE call that had
\* decoded bytes, and returned "" from the reset instance.
FlushedAgain ==
    /\ reflushed /\ used >= 1
    /\ last.text = <<>> /\ last.err = ErrNil
    /\ inst.buffer = <<>> /\ inst.transform = NilTransform

\* The call recorded in call took the instance from d to e and returned
\* what Decode computes from d alone.
OwnResult(d, call, e) ==
    /\ call.called
    /\ call.text = Decode(d, call.buffer, [Stream |-> call.stream]).text
    /\ call.err = Decode(d, call.buffer, [Stream |-> call.stream]).err
    /\ e = Decode(d, call.buffer, [Stream |-> call.stream]).td

PropertiesImmutable ==
    (ctor.called /\ ctor.instance /\ last.called)
        => /\ inst.Encoding = NewTextDecoder(ctor.label, ctor.options).td.Encoding
           /\ inst.Fatal = ctor.options.Fatal
           /\ inst.IgnoreBOM = ctor.options.IgnoreBOM

\* A fatal decoder whose stream returned text in an earlier call and then
\* failed: it is still fatal, with the encoding and ignoreBOM it was built with.
FailedCallKeptProperties ==
    /\ last.called /\ last.err = TypeError /\ sout # <<>>
    /\ ctor.options.Fatal /\ inst.Fatal
    /\ inst.Encoding = UTF16BEEncodingFormat
    /\ inst.IgnoreBOM = ctor.options.IgnoreBOM

EncodingNotSet == "encoding not set"

\* C25: a Decode call on a TextDecoder whose decoder field is nil returns
\* "" and the error "encoding not set" and changes nothing in the instance:
\* pending buffer, transformer and every other field are as before.
UnsetDecoderRejects ==
    [][inst.decoder.kind = "nil"
         => /\ last'.called
            /\ last'.text = <<>>
            /\ last'.err = EncodingNotSet
            /\ inst' = inst]_vars

\* An instance without encoding that holds pending bytes and a transformer
\* was called with bytes, streaming, and still holds both.
UnsetCalledWithBytes ==
    /\ inst.decoder.kind = "nil"
    /\ last.called /\ last.stream /\ last.buffer # <<>>
    /\ last.err = EncodingNotSet
    /\ inst.buffer = <<239>> /\ inst.transform # NilTransform

\* p is a prefix of s.
IsPrefixOf(p, s) == Len(p) <= Len(s) /\ SubSeq(s, 1, Len(p)) = p

\* C26: output order follows input order.  On a non-fatal UTF-8 decoder the
\* text of a call that starts a stream (the working buffer is the call's
\* own bytes) lists characters and U+FFFD replacements in the order of the
\* spans of those bytes: its marks are the marks of the bytes, read left to
\* right, up to where the call stopped, with stream = TRUE as with
\* stream = FALSE.
OutputFollowsInputOrder ==
    (/\ last.called /\ ~inst.Fatal /\ inst.Encoding = UTF8EncodingFormat
     /\ cutsOK /\ sin = last.buffer)
        => IsPrefixOf(MarksOf(last.text), Classify(Payload(inst, sin), 0))

\* p is a proper prefix of one well-formed UTF-8 sequence of more than one
\* byte: a lead byte and fewer continuation bytes than it asks for.
IncompletePrefix(p) ==
    /\ p # <<>>
    /\ utf8First(p[1]).valid
    /\ utf8First(p[1]).size > Len(p)
    /\ ContRun(p, 0, 1, utf8First(p[1]).size) = Len(p) - 1

\* The bytes of the stream that the calls before the latest one passed.
Earlier == SubSeq(sin, 1, Len(sin) - Len(last.buffer))

NumReplacements(marks) == Cardinality(ReplacementPositions(marks))

\* C27: when the bytes a streaming call left pending form, with the bytes
\* of the next call, a malformed span, exactly one U+FFFD stands for that
\* span and decoding resumes right after it: the continuation bytes among
\* the new bytes that belong to the span get no replacement of their own.
\* For a non-fatal UTF-8 stream that so far is the pending prefix and the
\* new bytes, with nothing left pending, the output holds as many U+FFFD as
\* the classification rules find spans in the bytes.
OneReplacementForPendingSpan ==
    (/\ last.called /\ last.stream /\ ~inst.Fatal
     /\ inst.Encoding = UTF8EncodingFormat
     /\ last.buffer # <<>> /\ IncompletePrefix(Earlier)
     /\ Classify(sin, 0)[1] = "U+FFFD"
     /\ inst.buffer = <<>>)
        => NumReplacements(MarksOf(sout)) = NumReplacements(Classify(sin, 0))

\* The byte order a UTF-16 label stands for.
EndianOf(enc) == IF enc = UTF16BEEncodingFormat THEN "BigEndian" ELSE "LittleEndian"

\* w is a proper prefix of one well-formed UTF-16 sequence: one byte of a
\* code unit that can begin a sequence, or a high surrogate with at most one
\* byte of a low surrogate behind it.
IncompletePrefix16(w, endianness) ==
    LET lowLead(b) == b >= 220 /\ b <= 223
        high(u) == u >= 55296 /\ u <= 56319
    IN
    \/ Len(w) = 1 /\ (endianness = "BigEndian" => ~lowLead(w[1]))
    \/ Len(w) = 2 /\ high(utf16Unit(w, 0, endianness))
    \/ /\ Len(w) = 3 /\ high(utf16Unit(w, 0, endianness))
       /\ (endianness = "BigEndian" => lowLead(w[3]))

\* w is a proper prefix of one well-formed sequence of the encoding.
PrefixOfOne(enc, w) ==
    IF enc = UTF8EncodingFormat THEN IncompletePrefix(w)
    ELSE IncompletePrefix16(w, EndianOf(enc))

\* w is exactly one well-formed sequence of the encoding.
OneSequence(enc, w) ==
    /\ w # <<>> /\ WellFormed(enc, w)
    /\ \A k \in 1..(Len(w) - 1) : ~WellFormed(enc, SubSeq(w, 1, k))

\* A stream=true call with new bytes on a decoder whose pending bytes are
\* none or a proper prefix of one sequence.
PrefixStep ==
    /\ last'.called /\ last'.stream /\ last'.buffer # <<>>
    /\ (inst.buffer = <<>> \/ PrefixOfOne(inst.Encoding, inst.buffer))

\* C28: while the pending bytes with the new bytes of a stream=true call
\* are still a proper prefix of one well-formed sequence, the call returns
\* "" and keeps all of them pending, call after call; the call that
\* supplies the last byte of the sequence returns its character.  (A
\* byte-order mark, which a decoder may remove, is not taken as the
\* sequence.)
PrefixPendingUntilComplete ==
    [][PrefixStep =>
        /\ PrefixOfOne(inst.Encoding, inst.buffer \o last'.buffer)
            => /\ last'.text = <<>> /\ last'.err = ErrNil
               /\ inst'.buffer = inst.buffer \o last'.buffer
        /\ (/\ inst.buffer # <<>>
            /\ OneSequence(inst.Encoding, inst.buffer \o last'.buffer)
            /\ ~LeadingMark(inst.buffer \o last'.buffer))
            => /\ last'.err = ErrNil
               /\ last'.text = EncodedText(inst.Encoding, inst.buffer \o last'.buffer)]_vars

\* Where the working buffer w splits into well-formed input and an
\* incomplete span that runs to its end.
TailSplits(enc, w) ==
    {k \in 0..(Len(w) - 1) :
        /\ WellFormed(enc, SubSeq(w, 1, k))
        /\ PrefixOfOne(enc, SubSeq(w, k + 1, Len(w)))}

Replacement == <<239, 191, 189>>

\* C29: on a stream=false call an incomplete span at the end of the working
\* buffer (pending bytes and new bytes) is one invalid span that covers all
\* the remaining bytes: a non-fatal decoder returns the text of the
\* well-formed bytes before it and exactly one U+FFFD, a fatal decoder
\* fails with TypeError; for UTF-8 tails of 1 to 3 bytes and for UTF-16
\* tails of an odd byte, a high surrogate, or a high surrogate and one byte.
IncompleteTailOneSpan ==
    [][\A k \in TailSplits(inst.Encoding, inst.buffer \o last'.buffer) :
        (last'.called /\ ~last'.stream /\ ~LeadingMark(inst.buffer \o last'.buffer))
            => IF inst.Fatal
               THEN last'.err = TypeError
               ELSE /\ last'.err = ErrNil
                    /\ last'.text =
                         EncodedText(inst.Encoding,
                                     SubSeq(inst.buffer \o last'.buffer, 1, k))
                         \o Replacement]_vars

\* The complete valid characters inside w: the spans of w, at code-unit
\* boundaries, that are exactly one well-formed sequence of the encoding.
CharactersIn(enc, w) ==
    {<<i, j>> \in (1..Len(w)) \X (1..Len(w)) :
        /\ i <= j
        /\ (IsUTF16(enc) => i % 2 = 1)
        /\ OneSequence(enc, SubSeq(w, i, j))}

\* C30: after a stream=true call returns, the pending buffer is exactly the
\* trailing incomplete span of the working buffer: it holds no complete
\* valid character, so every complete valid sequence before the incomplete
\* tail, or making up the whole chunk, was emitted by the call.
PendingHoldsNoCharacter ==
    (last.called /\ last.stream /\ last.err = ErrNil)
        => CharactersIn(inst.Encoding, inst.buffer) = {}

(***************************************************************************)
(* A UTF-8 decoder fed lead bytes that no well-formed sequence begins with *)
(* and continuation bytes outside the range of their lead.                 *)
(***************************************************************************)
\* "A", the continuation byte 80, the overlong lead C0, the lead E0 (whose
\* second byte must lie in A0..BF) and the out-of-range lead F5.
LeadAlphabet == {65, 128, 192, 224, 245}

InitLeads ==
    \E fatal \in BOOLEAN, ignoreBOM \in BOOLEAN :
        /\ InitOf("single", <<"u","t","f","-","8">>, fatal, ignoreBOM, LeadAlphabet)
        /\ tenc = NoEncoder

SpecLeads == InitLeads /\ [][Next]_vars

\* C31: for a utf-8 decoder the pending buffer after a stream=true call is
\* always empty or a proper prefix of some well-formed UTF-8 sequence: a
\* byte that can never start a sequence (C0, C1, F5..FF) and a lead with a
\* continuation byte outside the range the lead requires (E0 then 80..9F,
\* ...) are reported by the call that receives them, never kept pending.
PendingIsProperPrefix ==
    (/\ last.called /\ last.stream /\ last.err = ErrNil
     /\ inst.Encoding = UTF8EncodingFormat)
        => (inst.buffer = <<>> \/ IncompletePrefix(inst.buffer))

\* The code points the UTF-16 rules read off whole code units, from byte i+1
\* on: a high surrogate immediately followed by a low surrogate is one
\* supplementary code point, any other surrogate unit is U+FFFD and the unit
\* after it is read on its own.
RECURSIVE UnitsDecoded(_, _, _)
UnitsDecoded(s, i, endianness) ==
    LET u == utf16Unit(s, i, endianness)
        high == u >= 55296 /\ u <= 56319
        lowNext == /\ i + 4 <= Len(s)
                   /\ utf16Unit(s, i + 2, endianness) >= 56320
                   /\ utf16Unit(s, i + 2, endianness) <= 57343
    IN IF i + 2 > Len(s) THEN <<>>
       ELSE IF high /\ lowNext
       THEN <<utf16DecodeRune(u, utf16Unit(s, i + 2, endianness))>>
            \o UnitsDecoded(s, i + 4, endianness)
       ELSE IF IsSurrogate(u) THEN <<RuneError>> \o UnitsDecoded(s, i + 2, endianness)
       ELSE <<u>> \o UnitsDecoded(s, i + 2, endianness)

\* C32: a utf-16 decoder decodes a high surrogate immediately followed by a
\* low surrogate to one supplementary code point, and in non-fatal mode
\* turns every unpaired surrogate unit into exactly one U+FFFD and decodes
\* the unit after it on its own.  Checked on one stream=false call with
\* whole code units that do not begin with a byte-order mark.
SurrogatesPairedOrReplaced ==
    (/\ Closed /\ sin = last.buffer
     /\ IsUTF16(inst.Encoding) /\ ~inst.Fatal
     /\ Len(sin) % 2 = 0 /\ ~LeadingMark(sin))
        => /\ last.err = ErrNil
           /\ last.text = BytesOf(UnitsDecoded(sin, 0, EndianOf(inst.Encoding)))

\* C33: a stream=true call with no bytes returns "" without error and leaves
\* the pending buffer byte for byte as it was, for every encoding and every
\* pending content the decoder can hold.
EmptyStreamingCallKeepsPending ==
    [][(last'.called /\ last'.stream /\ last'.buffer = <<>>)
        => /\ last'.text = <<>> /\ last'.err = ErrNil
           /\ inst'.buffer = inst.buffer]_vars

\* An empty stream=true call was made on a decoder that holds pending bytes
\* and left them in place.
EmptyCallOnPending ==
    /\ last.called /\ last.stream /\ last.buffer = <<>>
    /\ last.text = <<>> /\ last.err = ErrNil
    /\ Len(inst.buffer) >= 2 /\ sin = inst.buffer

\* C34: the policy after a fatal failure is uniform: whenever a Decode call
\* fails with TypeError, with stream=true or stream=false and for every
\* encoding, the pending buffer is empty afterwards, so the next call sees
\* only its own bytes.
PendingEmptyAfterTypeError ==
    (last.called /\ last.err = TypeError) => inst.buffer = <<>>

\* The stream so far is one stream=true call on a non-fatal decoder, and the
\* step closes it with a stream=false call without bytes.
FlushAfterOneChunk ==
    /\ Streaming /\ sin = last.buffer /\ sout = last.text /\ ~inst.Fatal
    /\ last'.called /\ ~last'.stream /\ last'.buffer = <<>>

\* C35: for every byte sequence and every encoding a non-fatal decoder gives
\* the same text in both modes: Decode(bytes, stream=true) followed by
\* Decode(no bytes, stream=false), concatenated, equals
\* Decode(bytes, stream=false) on a fresh decoder with the same options.
StreamedThenFlushedAsOneShot ==
    [][FlushAfterOneChunk => sout' = OneShot(inst, sin).text]_vars

\* C36: whenever a decoder built with fatal = true returns text without an
\* error, that text holds no U+FFFD, after any sequence of calls.
FatalTextHasNoReplacement ==
    (last.called /\ inst.Fatal /\ last.err = ErrNil)
        => ReplacementPositions(MarksOf(last.text)) = {}

\* A fatal decoder failed on an earlier call of the stream and returned
\* text without error on a later one.
FatalReturnedTextAfterFailure ==
    /\ inst.Fatal /\ ctor.options.Fatal /\ last.called /\ last.err = ErrNil
    /\ last.text # <<>> /\ serr /\ sin # last.buffer
    /\ ReplacementPositions(MarksOf(last.text)) = {}

(***************************************************************************)
(* The byte loops of the UTF-8 helpers, one iteration per step: the loop   *)
(* of detectInvalidUTF8Sequences and the counting loop of the flush of     *)
(* Decode, run on a buffer of up to MaxScan bytes, and a call of           *)
(* canCompleteUTF8Sequence on the incomplete bytes the scan returned.      *)
(***************************************************************************)
MaxScan == 4

MaxNew == 2

\* ASCII, the continuation bytes 80 and BF, the leads C2, E0 (second byte
\* A0..BF), F0 (second byte 90..BF) and the out-of-range lead F5.
ScanAlphabet == {65, 128, 191, 194, 224, 240, 245}

\* An iteration that moves the index one byte too far.
detectSkip(i, k) == i + k + 1

\* An iteration that forgets to move the index.
detectStay(i, k) == i

\* i++, i += 2, i += 3, i += 4 at the end of a branch of the loop.
detectAdvance(i, k) == i + k

\* One iteration of the loop of detectInvalidUTF8Sequences at index i: the
\* index and the slices after it, and whether the iteration left the loop
\* with break.
detectStep(buffer, i, invalidSeqs, validBytes) ==
    LET n == Len(buffer)
        b == buffer[i + 1]
        brk == [i |-> i, invalidSeqs |-> invalidSeqs, validBytes |-> validBytes,
                incompleteBytes |-> Tail0(buffer, i), broke |-> TRUE]
        inv(k) == [i |-> detectAdvance(i, k),
                   invalidSeqs |-> Append(invalidSeqs, SubSeq(buffer, i + 1, i + k)),
                   validBytes |-> validBytes,
                   incompleteBytes |-> <<>>, broke |-> FALSE]
        val(k) == [i |-> detectAdvance(i, k), invalidSeqs |-> invalidSeqs,
                   validBytes |-> validBytes \o SubSeq(buffer, i + 1, i + k),
                   incompleteBytes |-> <<>>, broke |-> FALSE]
    IN
    IF b < 128 THEN val(1)
    ELSE IF b >= 192 /\ b <= 223
         THEN IF i + 1 >= n THEN brk
              ELSE IF ~isContinuation(buffer[i + 2]) THEN inv(1)
              ELSE val(2)
    ELSE IF b >= 224 /\ b <= 239
         THEN IF i + 1 >= n THEN brk
              ELSE IF ~isContinuation(buffer[i + 2]) THEN inv(1)
              ELSE IF i + 2 >= n THEN brk
              ELSE IF ~isContinuation(buffer[i + 3]) THEN inv(2)
              ELSE IF (b = 224 /\ buffer[i + 2] < 160) \/ (b = 237 /\ buffer[i + 2] >= 160)
                   THEN inv(3)
              ELSE val(3)
    ELSE IF b >= 240 /\ b <= 247
         THEN IF i + 1 >= n THEN brk
              ELSE IF ~isContinuation(buffer[i + 2]) THEN inv(1)
              ELSE IF i + 2 >= n THEN brk
              ELSE IF ~isContinuation(buffer[i + 3]) THEN inv(2)
              ELSE IF i + 3 >= n THEN brk
              ELSE IF ~isContinuation(buffer[i + 4]) THEN inv(3)
              ELSE IF (b = 240 /\ buffer[i + 2] < 144) \/ (b = 244 /\ buffer[i + 2] >= 144)
                      \/ b >= 245
                   THEN inv(4)
              ELSE val(4)
    ELSE inv(1)

\* One iteration of the loop of the UTF-8 flush at index i: every byte that
\* is not ASCII counts one replacement, every branch ends with i++.
flushStep(tdBuffer, i, count) ==
    [i |-> i + 1, count |-> IF tdBuffer[i + 1] < 128 THEN count ELSE count + 1]

\* The state before the first iteration of a loop over buffer.
StartScan(loop, buffer) ==
    [NoScan EXCEPT !.loop = loop, !.running = TRUE, !.buffer = buffer]

InitScan ==
    /\ \E loop \in {"detect", "flush"}, buffer \in SeqsUpTo(ScanAlphabet, MaxScan) :
           scan = StartScan(loop, buffer)
    /\ mode = "helpers"
    /\ tenc = NoEncoder
    /\ ctor = NotConstructed(<<>>, [Fatal |-> FALSE, IgnoreBOM |-> FALSE])
    /\ inst = ZeroTextDecoder
    /\ twin = ZeroTextDecoder
    /\ alphabet = ScanAlphabet
    /\ used = 0
    /\ sin = <<>>
    /\ sout = <<>>
    /\ serr = FALSE
    /\ cutsOK = TRUE
    /\ last = NoCall
    /\ tlast = NoCall
    /\ prevMarked = FALSE
    /\ reflushed = FALSE

Scanned(st) ==
    /\ scan' = [scan EXCEPT !.i = st.i, !.invalidSeqs = st.invalidSeqs,
                            !.validBytes = st.validBytes,
                            !.incompleteBytes = st.incompleteBytes,
                            !.running = ~st.broke]
    /\ UNCHANGED <<inst, twin, mode, alphabet, used, sin, sout, serr, cutsOK, last,
                   tlast, prevMarked, ctor, tenc, reflushed>>

\* for i < len(buffer) { ... } of detectInvalidUTF8Sequences: one iteration.
DetectIteration ==
    /\ scan.running /\ scan.loop = "detect" /\ scan.i < Len(scan.buffer)
    /\ Scanned(detectStep(scan.buffer, scan.i, scan.invalidSeqs, scan.validBytes))

Counted(st) ==
    /\ scan' = [scan EXCEPT !.i = st.i, !.flushReplacementCount = st.count]
    /\ UNCHANGED <<inst, twin, mode, alphabet, used, sin, sout, serr, cutsOK, last,
                   tlast, prevMarked, ctor, tenc, reflushed>>

\* for i < len(td.buffer) { ... } of the flush: one iteration.
FlushIteration ==
    /\ scan.running /\ scan.loop = "flush" /\ scan.i < Len(scan.buffer)
    /\ Counted(flushStep(scan.buffer, scan.i, scan.flushReplacementCount))

\* The loop condition i < len(buffer) fails: the loop is left.
LoopExit ==
    /\ scan.running /\ scan.i >= Len(scan.buffer)
    /\ scan' = [scan EXCEPT !.running = FALSE]
    /\ UNCHANGED <<inst, twin, mode, alphabet, used, sin, sout, serr, cutsOK, last,
                   tlast, prevMarked, ctor, tenc, reflushed>>

\* canCompleteUTF8Sequence(prevIncompleteBytes, buffer) on the incomplete
\* bytes the scan returned, which Decode keeps in td.buffer, and the bytes
\* of the next call.
CanComplete ==
    /\ ~scan.running /\ scan.loop = "detect" /\ ~scan.asked
    /\ scan.incompleteBytes # <<>>
    /\ \E newBytes \in SeqsUpTo(ScanAlphabet, MaxNew) \ {<<>>} :
           scan' = [scan EXCEPT !.asked = TRUE, !.newBytes = newBytes,
                                !.answer = canCompleteUTF8Sequence(scan.incompleteBytes, newBytes)]
    /\ UNCHANGED <<inst, twin, mode, alphabet, used, sin, sout, serr, cutsOK, last,
                   tlast, prevMarked, ctor, tenc, reflushed>>

NextScan == DetectIteration \/ FlushIteration \/ LoopExit \/ CanComplete

SpecScan == InitScan /\ [][NextScan]_vars

\* The loops run in the calling goroutine without yielding: an iteration
\* that can be taken is taken.
SpecScanFair ==
    SpecScan /\ WF_vars(DetectIteration) /\ WF_vars(FlushIteration) /\ WF_vars(LoopExit)

\* C37: every Decode call terminates: each iteration of the UTF-8 scanning
\* loops either advances the read position by at least one byte or leaves
\* the loop, so a loop over a finite buffer is left after finitely many
\* iterations.
ScanLoopsTerminate ==
    /\ [][scan.running => (scan'.i > scan.i \/ ~scan'.running)]_vars
    /\ <>(~scan.running)

\* Both loops ran to the end of a full buffer, the scan with invalid, valid
\* and incomplete bytes found on the way.
ScannedToTheEnd ==
    /\ mode = "helpers" /\ ~scan.running /\ Len(scan.buffer) = MaxScan
    /\ \/ /\ scan.loop = "detect" /\ scan.invalidSeqs # <<>> /\ scan.validBytes # <<>>
          /\ scan.incompleteBytes # <<>>
       \/ /\ scan.loop = "flush" /\ scan.i = MaxScan /\ scan.flushReplacementCount >= 2

\* The bytes of a list of byte slices, in order.
RECURSIVE Flatten(_)
Flatten(seqs) == IF seqs = <<>> THEN <<>> ELSE Head(seqs) \o Flatten(Tail(seqs))

\* a can be read off b from left to right, skipping bytes of b.
RECURSIVE IsSubsequence(_, _)
IsSubsequence(a, b) ==
    IF a = <<>> THEN TRUE
    ELSE IF b = <<>> THEN FALSE
    ELSE IF Head(a) = Head(b) THEN IsSubsequence(Tail(a), Tail(b))
    ELSE IsSubsequence(a, Tail(b))

\* The scan of detectInvalidUTF8Sequences has returned.
ScanReturned == mode = "helpers" /\ scan.loop = "detect" /\ ~scan.running

\* C38: detectInvalidUTF8Sequences partitions its input: the lengths of the
\* invalid sequences, the valid bytes and the incomplete bytes sum to the
\* input length, no slice is empty, the valid bytes (and the invalid ones)
\* keep their input order, and the incomplete bytes are a suffix of the
\* input of at most 3 bytes that starts with a lead byte in C0..F7.  The
\* slices the loop builds are the ones the function returns.
ScanPartitionsInput ==
    ScanReturned =>
        /\ Len(Flatten(scan.invalidSeqs)) + Len(scan.validBytes)
             + Len(scan.incompleteBytes) = Len(scan.buffer)
        /\ \A k \in 1..Len(scan.invalidSeqs) : scan.invalidSeqs[k] # <<>>
        /\ IsSubsequence(scan.validBytes,
                         SubSeq(scan.buffer, 1, Len(scan.buffer) - Len(scan.incompleteBytes)))
        /\ IsSubsequence(Flatten(scan.invalidSeqs),
                         SubSeq(scan.buffer, 1, Len(scan.buffer) - Len(scan.incompleteBytes)))
        /\ HasSuffix(scan.buffer, scan.incompleteBytes)
        /\ Len(scan.incompleteBytes) <= 3
        /\ scan.incompleteBytes # <<>>
             => (scan.incompleteBytes[1] >= 192 /\ scan.incompleteBytes[1] <= 247)
        /\ detectInvalidUTF8Sequences(scan.buffer) =
             [invalid |-> scan.invalidSeqs, valid |-> scan.validBytes,
              incomplete |-> scan.incompleteBytes]

\* A scan of a full buffer returned slices of all three kinds.
ScanReturnedThreeKinds ==
    /\ ScanReturned /\ Len(scan.buffer) = MaxScan
    /\ scan.invalidSeqs # <<>> /\ Len(scan.validBytes) >= 2
    /\ scan.incompleteBytes # <<>>

\* w begins with bytes that are still consistent with one well-formed UTF-8
\* sequence: its first byte can begin a sequence and the bytes after it, as
\* far as the sequence and w reach, are continuation bytes in the ranges
\* the lead byte and the position allow.
ConsistentStart(w) ==
    /\ w # <<>>
    /\ utf8First(w[1]).valid
    /\ ContRun(w, 0, 1, utf8First(w[1]).size) + 1
         = (IF utf8First(w[1]).size < Len(w) THEN utf8First(w[1]).size ELSE Len(w))

\* C39: canCompleteUTF8Sequence(pending, new) is true exactly when pending
\* followed by new begins with bytes still consistent with one well-formed
\* UTF-8 sequence (a complete sequence or a proper prefix of one), for
\* every non-empty pending buffer the decoder holds and every non-empty
\* new chunk.
CanCompleteIffConsistent ==
    (mode = "helpers" /\ scan.asked)
        => (scan.answer <=> ConsistentStart(scan.incompleteBytes \o scan.newBytes))

====
